---- MODULE Spec2Model ----
(***************************************************************************)
(* Model of the ai_safety_devices_manager field-device layer:              *)
(*   - the Modbus-TCP transport of the battery, solar, io_relay and        *)
(*     hoist_hook drivers (sendModbusPacket, GatewaySerialGuard),          *)
(*   - the register decoder (parseRegisterResponse) of each driver family, *)
(*   - the risky-write confirmation path (genericWrite),                   *)
(*   - the single-point lidar stream codec (SpdLidarCore).                 *)
(* Byte indices of the C++ code are 0-based; At(s, k) reads s[k].          *)
(***************************************************************************)
EXTENDS Integers, Sequences, FiniteSets, TLC

VARIABLES
  \* ---- register decoder (parseRegisterResponse) ----
  response,      \* the bytes handed to the decoder
  function_code, \* the requested function code
  quantity,      \* the requested register count
  decoded,       \* result of the last parseRegisterResponse call, or NoDecode
  \* ---- lidar codec (SpdLidarCore) ----
  stream,        \* bytes the device will still deliver
  recv_buf_,     \* SpdLidarCore::recv_buf_
  frames,        \* every frame handed to on_frame so far, in order
  lastPush,      \* the last handleRecvBytes call: buffer before, data, frames emitted
  delivered,     \* every byte handed to handleRecvBytes so far, in order
  lastLine,      \* the last line given to handleInputLine, or NoLine
  lastSent,      \* what that call gave to on_send and on_log
  \* ---- transport / orchestrator threads ----
  th,            \* per thread: position in Interface::query / sendModbusPacket
  guardMtx,      \* GatewaySerialGuard::globalMutex() owner
  lastSend,      \* GatewaySerialGuard::lastSendByEndpoint()
  socket_mutex_, \* per driver: owner of socket_mutex_
  socket_fd_,    \* per driver: socket_fd_
  output_mutex_, \* Interface::output_mutex_ owner
  now,           \* steady_clock, in milliseconds
  wire,          \* history: per endpoint, time of the last guard release and exchange end
  \* ---- orchestrator lifecycle (Interface::init / start / stop) ----
  orch,          \* Interface members, its two background workers, the last API call
  \* ---- polling worker, snapshot reporter, interactive dispatch ----
  poller,          \* auto_query_running_, the worker thread, its tasks and position
  snapshot,        \* latest_query_output_ / _status_ / _time_, per snapshot key
  snapshot_mutex_, \* Interface::snapshot_mutex_ owner
  reporter,        \* snapshot printer thread: position and its copies of the maps
  dispatcher,      \* a thread inside Interface::dispatchCommand
  console,         \* where std::cout points, and who wrote what
  \* ---- request frames (createModbusPacket) ----
  transaction_id_, \* per driver: transaction_id_
  packet,          \* the frame the last createModbusPacket call returned, and its sends
  frame_log,       \* history: which (driver, function code) frames moved the id, which kept it
  \* ---- the polling loop on a relative clock ----
  worker_loop,     \* the worker's tasks with next_due counted from the present instant
  \* ---- the mutexes of the three threads ----
  mutexes          \* owner of every mutex; per thread, the lock operations still to do

decVars == <<response, function_code, quantity, decoded>>
lidVars == <<stream, recv_buf_, frames, lastPush, delivered, lastLine, lastSent>>
trVars  == <<th, guardMtx, lastSend, socket_mutex_, socket_fd_, output_mutex_, now, wire>>
orcVars == <<orch>>
schVars == <<poller, snapshot, snapshot_mutex_, reporter, dispatcher, console>>
frmVars == <<transaction_id_, packet, frame_log>>
relVars == <<worker_loop>>
lckVars == <<mutexes>>
vars    == <<decVars, lidVars, trVars, orcVars, schVars, frmVars, relVars, lckVars>>

\* s[k] with the 0-based index of the C++ code
At(s, k) == s[k + 1]

\* all sequences over S of length 0..n
SeqsUpTo(S, n) == UNION {[1..k -> S] : k \in 0..n}

-----------------------------------------------------------------------------
(***************************************************************************)
(* Register decoder                                                        *)
(***************************************************************************)

\* bounds of the decoder inputs
MaxPayload == 5
MaxQty == 2

NoDecode == [driver |-> "none"]

\* the response prefix up to and including the unit id (MBAP header + unit)
Header7 == <<0, 1, 0, 0, 0, 5, 7>>

FcBytes == {3, 4, 131}
PayloadBytes == {0, 5, 255}
LenBytes == 0..(2 * MaxQty + 1)

\* responses a gateway may deliver: truncated headers, header + function code,
\* header + function code + byte count + payload (short, exact or padded)
Responses ==
  {SubSeq(Header7, 1, k) : k \in 0..7}
  \cup {Header7 \o <<f>> : f \in FcBytes}
  \cup {Header7 \o <<f, l>> \o p :
          f \in FcBytes, l \in LenBytes, p \in SeqsUpTo(PayloadBytes, MaxPayload)}

readBe16_swapped(p0, p1) == (p1 * 256 + p0) % 65536

\* readBe16: (p[0] << 8) | p[1] as uint16_t
readBe16(p0, p1) == (p0 * 256 + p1) % 65536

\* the loop pushing `quantity` big-endian words starting at byte 9
DecodeWords(resp, qty) ==
  [i \in 1..qty |-> readBe16(At(resp, 9 + (i - 1) * 2), At(resp, 10 + (i - 1) * 2))]

Fail(kind, code) == [ok |-> FALSE, values |-> <<>>, err |-> kind, code |-> code]
Success(vals) == [ok |-> TRUE, values |-> vals, err |-> "none", code |-> 0]

\* battery / solar: response.size() != 9 + data_len is rejected
LengthOkExact(size, data_len) == size = 9 + data_len

\* hoist_hook: response.size() < 9 + data_len is rejected
LengthOkAtLeast(size, data_len) == size >= 9 + data_len

EnoughData_bytes(data_len, qty) == ~(data_len < qty)

\* data_len < quantity * 2 is rejected
EnoughData(data_len, qty) == ~(data_len < qty * 2)

FcMatches_any(recv_fc, fc) == TRUE

\* recv_fc != function_code is rejected
FcMatches(recv_fc, fc) == recv_fc = fc

\* the body shared by the three parseRegisterResponse implementations;
\* exact selects the length test
ParseCommon(resp, fc, qty, exact) ==
  IF Len(resp) < 9 THEN Fail("short", 0)
  ELSE IF ~FcMatches(At(resp, 7), fc)
    THEN Fail("exception", IF Len(resp) > 8 THEN At(resp, 8) ELSE 0)
  ELSE LET data_len == At(resp, 8) IN
    IF exact /\ ~LengthOkExact(Len(resp), data_len) THEN Fail("length", 0)
    ELSE IF ~exact /\ ~LengthOkAtLeast(Len(resp), data_len) THEN Fail("length", 0)
    ELSE IF ~EnoughData(data_len, qty) THEN Fail("insufficient", 0)
    ELSE Success(DecodeWords(resp, qty))

BatteryParseRegisterResponse(resp, fc, qty) == ParseCommon(resp, fc, qty, TRUE)
SolarParseRegisterResponse(resp, fc, qty) == ParseCommon(resp, fc, qty, TRUE)
HoistHookParseRegisterResponse(resp, fc, qty) == ParseCommon(resp, fc, qty, FALSE)

DecodeFamilies == {"battery", "solar", "hoist_hook"}

parseRegisterResponse(d, resp, fc, qty) ==
  CASE d = "battery" -> BatteryParseRegisterResponse(resp, fc, qty)
    [] d = "solar" -> SolarParseRegisterResponse(resp, fc, qty)
    [] d = "hoist_hook" -> HoistHookParseRegisterResponse(resp, fc, qty)

-----------------------------------------------------------------------------
(***************************************************************************)
(* Lidar stream codec (SpdLidarCore)                                       *)
(***************************************************************************)

\* bound of the garbage prefix in front of a frame
MaxPrefix == 3

kHeader1 == 85
kHeader2 == 170
kCmdSingle == 136
kFrameSize == 8

NoPush == [called |-> FALSE]

checksumRecv_six(frame8) ==
  (At(frame8, 0) + At(frame8, 1) + At(frame8, 2) + At(frame8, 3)
     + At(frame8, 4) + At(frame8, 5)) % 256

\* checksumRecv: sum of frame8[0..6] & 0xFF
checksumRecv(frame8) ==
  (At(frame8, 0) + At(frame8, 1) + At(frame8, 2) + At(frame8, 3)
     + At(frame8, 4) + At(frame8, 5) + At(frame8, 6)) % 256

\* the marker test of the resynchronisation scan
MarkerAt(buf, start) ==
  /\ At(buf, start) = kHeader1
  /\ At(buf, start + 1) = kHeader2
  /\ At(buf, start + 2) = kCmdSingle

ScanStart_dropall(buf, start) ==
  IF \E i \in start..(Len(buf) - 3) : MarkerAt(buf, i)
    THEN CHOOSE i \in start..(Len(buf) - 3) :
           MarkerAt(buf, i) /\ \A j \in start..(i - 1) : ~MarkerAt(buf, j)
    ELSE Len(buf)

\* while (start + 2 < size) { if marker at start: break; ++start; }
RECURSIVE ScanStart(_, _)
ScanStart(buf, start) ==
  IF start + 2 < Len(buf)
    THEN IF MarkerAt(buf, start) THEN start ELSE ScanStart(buf, start + 1)
    ELSE start

Drop_onemore(buf, n) == SubSeq(buf, n + 2, Len(buf))

\* erase(begin, begin + n)
Drop(buf, n) == SubSeq(buf, n + 1, Len(buf))

FrameDistance_wrong(raw) == ((At(raw, 4) * 256) + At(raw, 5)) % 65536

\* parsed.data = uint16_t((raw[5] << 8) | raw[6])
FrameDistance(raw) == ((At(raw, 5) * 256) + At(raw, 6)) % 65536

\* the SpdLidarFrame built from the first 8 buffered bytes
ParseFrame(raw) ==
  [valid_header |-> MarkerAt(raw, 0),
   checksum_ok |-> (checksumRecv(raw) = At(raw, 7)),
   status |-> At(raw, 3),
   data |-> FrameDistance(raw),
   raw |-> raw]

emitFrameIfComplete_once(buf, out) ==
  IF ~(Len(buf) >= kFrameSize) THEN [buf |-> buf, out |-> out]
  ELSE LET start == ScanStart(buf, 0)
           synced == IF start > 0 THEN Drop(buf, start) ELSE buf
       IN IF Len(synced) < kFrameSize THEN [buf |-> synced, out |-> out]
          ELSE [buf |-> Drop(synced, kFrameSize),
                out |-> Append(out, ParseFrame(SubSeq(synced, 1, kFrameSize)))]

\* emitFrameIfComplete: returns the residual buffer and the frames given to on_frame
RECURSIVE emitFrameIfComplete(_, _)
emitFrameIfComplete(buf, out) ==
  IF ~(Len(buf) >= kFrameSize) THEN [buf |-> buf, out |-> out]
  ELSE LET start == ScanStart(buf, 0)
           synced == IF start > 0 THEN Drop(buf, start) ELSE buf
       IN IF Len(synced) < kFrameSize THEN [buf |-> synced, out |-> out]
          ELSE emitFrameIfComplete(Drop(synced, kFrameSize),
                                   Append(out, ParseFrame(SubSeq(synced, 1, kFrameSize))))

PrefixBytes == {kHeader1, kHeader2, kCmdSingle, 222, 173}
StatusBytes == {0, kHeader1}
HiBytes == {18, kHeader2}
LoBytes == {52, kCmdSingle}

\* a complete device frame; good selects a matching or a corrupted checksum
DeviceFrame(st, hi, lo, good) ==
  LET body == <<kHeader1, kHeader2, kCmdSingle, st, 255, hi, lo>>
      sum == (kHeader1 + kHeader2 + kCmdSingle + st + 255 + hi + lo) % 256
  IN Append(body, IF good THEN sum ELSE (sum + 1) % 256)

DeviceFrames ==
  {DeviceFrame(st, hi, lo, good) :
     st \in StatusBytes, hi \in HiBytes, lo \in LoBytes, good \in BOOLEAN}

\* byte streams the device side may produce: garbage, then one frame
Streams == {p \o f : p \in SeqsUpTo(PrefixBytes, MaxPrefix), f \in DeviceFrames}

\* handleRecvBytes(data, len): append, then emitFrameIfComplete
HandleRecvBytes ==
  /\ Len(stream) > 0
  /\ \E n \in 1..Len(stream) :
       LET data == SubSeq(stream, 1, n)
           r == emitFrameIfComplete(recv_buf_ \o data, <<>>)
       IN /\ recv_buf_' = r.buf
          /\ frames' = frames \o r.out
          /\ lastPush' = [called |-> TRUE, before |-> recv_buf_, data |-> data,
                          emitted |-> r.out]
          /\ stream' = Drop(stream, n)
          /\ delivered' = delivered \o data
  /\ UNCHANGED <<lastLine, lastSent>>
  /\ UNCHANGED <<decVars, trVars, orcVars, schVars, frmVars, relVars, lckVars>>

-----------------------------------------------------------------------------
(***************************************************************************)
(* Lidar outbound commands (SpdLidarCore::handleInputLine)                 *)
(* A line is a sequence of whitespace-separated tokens, a token a sequence *)
(* of characters.                                                          *)
(***************************************************************************)

\* bound on the number of tokens of a command line
MaxTokens == 9

NoLine == <<<<"-", "-">>>>
NoSend == [sent |-> FALSE, bytes |-> <<>>, log |-> "none"]

\* the characters std::strtoul(.., 16) takes as digits, with their values
HexValue ==
  [c \in {"0", "1", "2", "3", "4", "5", "6", "7", "8", "9"} |->
     CASE c = "0" -> 0 [] c = "1" -> 1 [] c = "2" -> 2 [] c = "3" -> 3 [] c = "4" -> 4
       [] c = "5" -> 5 [] c = "6" -> 6 [] c = "7" -> 7 [] c = "8" -> 8 [] c = "9" -> 9]
  @@ [c \in {"a", "A"} |-> 10] @@ [c \in {"b", "B"} |-> 11] @@ [c \in {"c", "C"} |-> 12]
  @@ [c \in {"d", "D"} |-> 13] @@ [c \in {"e", "E"} |-> 14] @@ [c \in {"f", "F"} |-> 15]

IsHexDigit(c) == c \in DOMAIN HexValue

\* token.substr(pos)
Substr(tok, pos) == SubSeq(tok, pos + 1, Len(tok))

\* number of leading hex digits of tok
RECURSIVE DigitRun(_)
DigitRun(tok) ==
  IF tok # <<>> /\ IsHexDigit(Head(tok)) THEN 1 + DigitRun(Tail(tok)) ELSE 0

\* value of a run of hex digits
RECURSIVE DigitsValue(_, _)
DigitsValue(digits, acc) ==
  IF digits = <<>> THEN acc
  ELSE DigitsValue(Tail(digits), acc * 16 + HexValue[Head(digits)])

\* std::strtoul(token, &end, 16): optional sign, optional 0x before a digit, the
\* longest run of hex digits; converted is end != token. A negated non-zero value
\* wraps to the top of unsigned long, kept here as a number far above 0xFF.
Strtoul16(tok) ==
  LET signLen == IF tok # <<>> /\ tok[1] \in {"+", "-"} THEN 1 ELSE 0
      neg == signLen = 1 /\ tok[1] = "-"
      r1 == Substr(tok, signLen)
      pre == IF Len(r1) >= 3 /\ r1[1] = "0" /\ r1[2] \in {"x", "X"} /\ IsHexDigit(r1[3])
               THEN 2 ELSE 0
      r2 == Substr(r1, pre)
      n == DigitRun(r2)
      mag == DigitsValue(SubSeq(r2, 1, n), 0)
  IN [converted |-> n > 0,
      value |-> IF neg /\ mag > 0 THEN 1073741824 - mag ELSE mag]

\* parseHexLine: [ok, out] with out the bytes pushed before it returned
RECURSIVE parseHexLine(_, _)
parseHexLine(tokens, out) ==
  IF tokens = <<>> THEN [ok |-> out # <<>>, out |-> out]
  ELSE LET token == Head(tokens)
           rest == Tail(tokens)
       IN IF token = <<"0", "x">> \/ token = <<"0", "X">>
            THEN parseHexLine(rest, out)
          ELSE LET t == IF Len(token) >= 2 /\ token[1] = "0" /\ token[2] \in {"x", "X"}
                          THEN Substr(token, 2) ELSE token
               IN IF t = <<>> THEN parseHexLine(rest, out)
                  ELSE LET v == Strtoul16(t)
                       IN IF ~v.converted \/ v.value > 255
                            THEN [ok |-> FALSE, out |-> out]
                            ELSE parseHexLine(rest, Append(out, v.value % 256))

checksumSend_all(frame7) ==
  (frame7[1] + frame7[2] + frame7[3] + frame7[4] + frame7[5] + frame7[6] + frame7[7]) % 256

\* checksumSend: sum of frame7[2..6] & 0xFF
checksumSend(frame7) ==
  (At(frame7, 2) + At(frame7, 3) + At(frame7, 4) + At(frame7, 5) + At(frame7, 6)) % 256

SingleLine == <<<<"s", "i", "n", "g", "l", "e">>>>

LengthAccepted_upto8(n) == n <= 8

\* handleInputLine: the sizes of a parsed command that are sent
LengthAccepted(n) == n = 7 \/ n = 8

\* handleInputLine: what is given to on_send (if anything) and which log line
handleInputLine(line) ==
  IF line = SingleLine
    THEN LET cmd == <<kHeader1, kHeader2, kCmdSingle, 255, 255, 255, 255>>
         IN [sent |-> TRUE, bytes |-> Append(cmd, checksumSend(cmd)), log |-> "send"]
  ELSE LET p == parseHexLine(line, <<>>)
       IN IF p.ok
            THEN IF ~LengthAccepted(Len(p.out))
                   THEN [sent |-> FALSE, bytes |-> <<>>, log |-> "need7or8"]
                 ELSE IF Len(p.out) = 7
                   THEN [sent |-> TRUE, bytes |-> Append(p.out, checksumSend(p.out)),
                         log |-> "send"]
                   ELSE [sent |-> TRUE, bytes |-> p.out, log |-> "send"]
            ELSE [sent |-> FALSE, bytes |-> <<>>, log |-> "invalid"]

\* tokens an operator may type
Tokens ==
  {<<"5", "5">>, <<"A", "A">>, <<"8", "8">>, <<"F", "F">>, <<"f", "f">>, <<"7">>,
   <<"0", "x", "1", "2">>, <<"0", "X", "a", "B">>, <<"0", "x">>, <<"1", "0", "0">>,
   <<"G">>, <<"1", "G">>, <<"-", "1">>, <<"+", "5">>, <<"0", "x", "G">>,
   <<"0", "x", "1", "0", "0">>}

\* the tokens of "55 AA 88 FF FF FF FF 84 00 01 ..."
BaseToken(i) ==
  CASE i = 1 -> <<"5", "5">> [] i = 2 -> <<"A", "A">> [] i = 3 -> <<"8", "8">>
    [] i \in 4..7 -> <<"F", "F">> [] i = 8 -> <<"8", "4">>
    [] OTHER -> <<"0", "1">>

\* command lines: "single", and lines of 0..MaxTokens tokens, one of them arbitrary
Lines ==
  {SingleLine}
  \cup {[i \in 1..k |-> BaseToken(i)] : k \in 0..MaxTokens}
  \cup UNION {{[i \in 1..k |-> IF i = j THEN t ELSE BaseToken(i)] :
                 j \in 1..k, t \in Tokens} : k \in 1..MaxTokens}

\* handleInputLine(line)
HandleInputLine ==
  /\ \E line \in Lines :
       /\ lastLine' = line
       /\ lastSent' = handleInputLine(line)
  /\ UNCHANGED <<stream, recv_buf_, frames, lastPush, delivered>>
  /\ UNCHANGED <<decVars, trVars, orcVars, schVars, frmVars, relVars, lckVars>>

-----------------------------------------------------------------------------
(***************************************************************************)
(* Transport: sendModbusPacket of the four Modbus-TCP drivers, the         *)
(* GatewaySerialGuard, and the Interface entry points that reach them.     *)
(***************************************************************************)

\* bounds of the transport model
MaxTicks == 2      \* the clock stops advancing after MaxTicks ticks
TickMs == 60       \* granularity of the modelled clock, in milliseconds
MaxReads == 2      \* exchanges of one aggregated query ("basic", "all", ...)

\* GatewaySerialGuard serial_guard(endpoint_key, 120)
MinGapMs == 120

Drivers == {"battery", "solar", "io_relay", "hoist_hook"}
Threads == {"scheduler", "caller"}
Endpoints == {"192.168.1.12:502", "192.168.1.13:502"}

\* module_ip_ + ":" + std::to_string(module_port_) of the configured drivers:
\* battery, solar and hoist_hook sit behind one gateway, io_relay behind another
EndpointKey(d) == IF d = "io_relay" THEN "192.168.1.13:502" ELSE "192.168.1.12:502"

\* the drivers whose sendModbusPacket constructs a GatewaySerialGuard
UsesGuard(d) == d \in {"battery", "solar", "io_relay"}

GuardDue_nogap(last) == last

\* const auto due = it->second + min_gap_
GuardDue(last) == last + MinGapMs

\* if (it != last.end()) { ...; if (due > now) sleep_for(due - now); }
MustSleep(last, t_now) == last # -1 /\ GuardDue(last) > t_now

disconnectLocked_leak(fd) == fd

\* disconnectLocked: if (socket_fd_ >= 0) { close; socket_fd_ = -1; }
disconnectLocked(fd) == IF fd >= 0 THEN -1 ELSE fd

\* ::socket() hands out the lowest descriptor not in use
LowestFreeFd ==
  CHOOSE f \in 3..(3 + Cardinality(Drivers)) :
    /\ \A d \in Drivers : socket_fd_[d] # f
    /\ \A g \in 3..(f - 1) : \E d \in Drivers : socket_fd_[d] = g

ConnectOutcomes == {"ok", "socket_failed", "bad_ip", "connect_failed"}

\* createModbusPacket: pkt.reserve(12), twelve bytes pushed
PacketSize == 12

\* what ::send and ::recv return in one sendAndReceiveLocked call: send fails (-1,
\* recv is not reached), sends part of the packet or all of it; recv times out or
\* fails (n <= 0) or delivers n bytes
XferOutcomes ==
  {[sent |-> -1, n |-> 0]}
    \cup {[sent |-> s, n |-> r] : s \in {5, PacketSize}, r \in {0, 11}}

\* sendAndReceiveLocked: if (::send(...) < 0) return false; n = ::recv(...);
\* if (n <= 0) return false; return true
sendAndReceiveLocked(o) ==
  IF o.sent < 0 THEN FALSE
  ELSE IF o.n <= 0 THEN FALSE
  ELSE TRUE

\* the last send/receive attempt of an exchange: what send returned, whether recv
\* was called and what it returned
NoAttempt == [made |-> FALSE, sent |-> 0, received |-> FALSE, n |-> 0]

\* ensureConnectionLocked: the value of socket_fd_ it leaves behind
ensureConnectionLocked(fd, outcome, fresh) ==
  IF fd >= 0 THEN fd
  ELSE CASE outcome = "ok" -> fresh
         [] outcome = "socket_failed" -> -1
         [] outcome = "bad_ip" -> disconnectLocked(fresh)
         [] outcome = "connect_failed" -> disconnectLocked(fresh)

\* Status values that cross the Interface boundary
StatusOk == [ok |-> TRUE, message |-> "ok"]
NoStatus == [ok |-> FALSE, message |-> "pending"]

IdleThread ==
  [pc |-> "idle", drv |-> "none", kind |-> "none", addr |-> 0, input |-> "unasked",
   left |-> 0, outLock |-> FALSE, wake |-> 0,
   x1 |-> "none", c2 |-> "none", x2 |-> "none", xfers |-> 0, ok |-> FALSE, resp |-> 0,
   outcome |-> "none", ret |-> NoStatus,
   sensor |-> "none", args |-> <<>>, qty |-> 0, fc |-> 0, att |-> NoAttempt,
   plan |-> <<>>, log |-> <<>>]

Resting(t) == th[t].pc \in {"idle", "done"}

\* the part of a thread record that is reset when one exchange starts
FreshExchange(r) ==
  [r EXCEPT !.pc = "guard", !.x1 = "none", !.c2 = "none", !.x2 = "none", !.xfers = 0,
            !.ok = FALSE, !.resp = 0, !.wake = 0, !.att = NoAttempt]

\* a read-type query of `n` exchanges on driver d enters the driver
StartRead(t, d, n, locked) ==
  th' = [th EXCEPT ![t] = FreshExchange(
           [IdleThread EXCEPT !.drv = d, !.kind = "read", !.left = n,
                              !.outLock = locked])]

\* queryWithCapturedOutput, called by the polling worker: output_mutex_, then query
PollBegin ==
  /\ Resting("scheduler")
  /\ output_mutex_ = "none"
  /\ \E d \in Drivers, n \in 1..MaxReads :
       StartRead("scheduler", d, n, TRUE)
  /\ output_mutex_' = "scheduler"
  /\ UNCHANGED <<guardMtx, lastSend, socket_mutex_, socket_fd_, now, wire>>
  /\ UNCHANGED <<decVars, lidVars, orcVars, schVars, frmVars, relVars, lckVars>>

\* Interface::dispatchCommand with a read command: output_mutex_, then query
DispatchRead ==
  /\ Resting("caller")
  /\ output_mutex_ = "none"
  /\ \E d \in Drivers, n \in 1..MaxReads :
       StartRead("caller", d, n, TRUE)
  /\ output_mutex_' = "caller"
  /\ UNCHANGED <<guardMtx, lastSend, socket_mutex_, socket_fd_, now, wire>>
  /\ UNCHANGED <<decVars, lidVars, orcVars, schVars, frmVars, relVars, lckVars>>

\* Interface::query with a read command, called directly (no output lock)
QueryRead ==
  /\ Resting("caller")
  /\ \E d \in Drivers, n \in 1..MaxReads :
       StartRead("caller", d, n, FALSE)
  /\ UNCHANGED <<guardMtx, lastSend, socket_mutex_, socket_fd_, output_mutex_, now, wire>>
  /\ UNCHANGED <<decVars, lidVars, orcVars, schVars, frmVars, relVars, lckVars>>

-----------------------------------------------------------------------------
(***************************************************************************)
(* Write path: Interface::queryX "set" -> genericWrite -> confirmRiskyWrite *)
(***************************************************************************)

ToU16(a) == a % 65536

\* battery: (addr >= 0x0FA1 && addr <= 0x0FB4) || (addr >= 0x5A60 && addr <= 0x5A8E)
BatteryRisky(addr) == (addr >= 4001 /\ addr <= 4020) \/ (addr >= 23136 /\ addr <= 23182)

\* solar: (addr == 0x000D || addr == 0x000E) || (addr >= 0x9000 && addr <= 0x9070)
SolarRisky(addr) == (addr = 13 \/ addr = 14) \/ (addr >= 36864 /\ addr <= 36976)

\* hoist_hook: addr >= 0x0000 && addr <= 0x0063
HoistHookRisky(addr) == addr >= 0 /\ addr <= 99

Risky(d, addr) ==
  CASE d = "battery" -> BatteryRisky(addr)
    [] d = "solar" -> SolarRisky(addr)
    [] d = "hoist_hook" -> HoistHookRisky(addr)

confirmRiskyWrite_always(d, addr, input) == TRUE

\* confirmRiskyWrite: no prompt outside the risky range, else the typed line must be YES
confirmRiskyWrite(d, addr, input) ==
  IF ~Risky(d, addr) THEN TRUE ELSE input = "YES"

\* what the operator may type at the confirmation prompt
Inputs == {"YES", "yes", ""}

WriteDrivers == {"battery", "solar", "hoist_hook"}

\* <addr> arguments of a set command (parsed ints, before the uint16_t cast)
AddrArgs(d) ==
  CASE d = "battery" -> {100, 4000, 4001, 4020, 4021, 23136, 23182, 23183, 69537}
    [] d = "solar" -> {12, 13, 14, 15, 36864, 36976, 36977}
    [] d = "hoist_hook" -> {0, 1, 2, 99, 100}

\* [fc] arguments of a set command; -1 is "not given"
FcArgs == {-1, 5, 6}

\* the function-code test at the top of genericWrite
FcAccepted(d, fc) ==
  CASE d = "battery" -> ~(fc >= 0 /\ fc # 6)
    [] d = "solar" -> LET f == IF fc < 0 THEN 6 ELSE fc IN f = 5 \/ f = 6
    [] d = "hoist_hook" -> LET f == IF fc < 0 THEN 6 ELSE fc IN f = 6

\* the thread record after genericWrite's checks, before any frame is built
WriteRequest(d, a, fc, input, locked) ==
  LET address == ToU16(a)
      base == [IdleThread EXCEPT !.drv = d, !.kind = "write", !.addr = address,
                                 !.input = IF Risky(d, address) THEN input ELSE "unasked"]
  IN IF ~FcAccepted(d, fc)
       THEN [base EXCEPT !.pc = "done", !.outcome = "unsupported", !.ret = StatusOk]
     ELSE IF ~confirmRiskyWrite(d, address, input)
       THEN [base EXCEPT !.pc = "done", !.outcome = "cancelled", !.ret = StatusOk]
     ELSE FreshExchange([base EXCEPT !.left = 1, !.outLock = locked])

\* Interface::query(<driver>, {"set", addr, value, fc}) called directly
QuerySet ==
  /\ Resting("caller")
  /\ \E d \in WriteDrivers :
       \E a \in AddrArgs(d), fc \in FcArgs, input \in Inputs :
         th' = [th EXCEPT !["caller"] = WriteRequest(d, a, fc, input, FALSE)]
  /\ UNCHANGED <<guardMtx, lastSend, socket_mutex_, socket_fd_, output_mutex_, now, wire>>
  /\ UNCHANGED <<decVars, lidVars, orcVars, schVars, frmVars, relVars, lckVars>>

\* Interface::dispatchCommand(<driver>, {"set", ...}): the same under output_mutex_
DispatchSet ==
  /\ Resting("caller")
  /\ output_mutex_ = "none"
  /\ \E d \in WriteDrivers :
       \E a \in AddrArgs(d), fc \in FcArgs, input \in Inputs :
         LET r == WriteRequest(d, a, fc, input, TRUE)
         IN /\ th' = [th EXCEPT !["caller"] = r]
            /\ output_mutex_' = IF r.pc = "done" THEN "none" ELSE "caller"
  /\ UNCHANGED <<guardMtx, lastSend, socket_mutex_, socket_fd_, now, wire>>
  /\ UNCHANGED <<decVars, lidVars, orcVars, schVars, frmVars, relVars, lckVars>>

\* hoist_hook speaker_ctl / light_ctl: genericWrite(0x0002 or 0x0001, value, 0x06)
HoistControl ==
  /\ Resting("caller")
  /\ \E a \in {1, 2}, input \in Inputs :
       th' = [th EXCEPT !["caller"] = WriteRequest("hoist_hook", a, 6, input, FALSE)]
  /\ UNCHANGED <<guardMtx, lastSend, socket_mutex_, socket_fd_, output_mutex_, now, wire>>
  /\ UNCHANGED <<decVars, lidVars, orcVars, schVars, frmVars, relVars, lckVars>>

-----------------------------------------------------------------------------
(***************************************************************************)
(* Command dispatch: Interface::query -> queryBattery / querySolar /       *)
(* queryHoistHook / queryIoRelay on an initialised Interface.  An argument *)
(* is a sequence of characters.                                            *)
(***************************************************************************)

CmdMap == <<"m", "a", "p">>
CmdBasic == <<"b", "a", "s", "i", "c">>
CmdStatus == <<"s", "t", "a", "t", "u", "s">>
CmdAll == <<"a", "l", "l">>
CmdGet == <<"g", "e", "t">>
CmdSet == <<"s", "e", "t">>
CmdOn == <<"o", "n">>
CmdOff == <<"o", "f", "f">>
CmdRead == <<"r", "e", "a", "d">>
CmdBogus == <<"b", "o", "g", "u", "s">>

\* the sub-commands of the modelled drivers that queryX dispatches to a driver
\* call (scan, addr, speaker_ctl, light_ctl and the other section names of the
\* info commands are not among the modelled inputs)
InfoCommands(d) ==
  CASE d = "battery" -> {CmdBasic, CmdAll}
    [] d = "solar" -> {CmdBasic, CmdStatus, CmdAll}
    [] d = "hoist_hook" -> {CmdAll}
    [] d = "io_relay" -> {}

SubCommands(d) ==
  IF d = "io_relay" THEN {CmdOn, CmdOff, CmdRead}
  ELSE {CmdMap, CmdGet, CmdSet} \cup InfoCommands(d)

\* drivers_.find(sensor) != drivers_.end()
Registered(sensor) == sensor \in Drivers

KnownCommand_any(d, cmd) == TRUE

\* the if / else-if chain of queryX reaches a branch other than the final else
KnownCommand(d, cmd) == cmd \in SubCommands(d)

\* digits of base `base` at the head of tok
RECURSIVE DigitRunBase(_, _)
DigitRunBase(tok, base) ==
  IF tok # <<>> /\ IsHexDigit(Head(tok)) /\ HexValue[Head(tok)] < base
    THEN 1 + DigitRunBase(Tail(tok), base)
    ELSE 0

RECURSIVE DigitsValueBase(_, _, _)
DigitsValueBase(digits, base, acc) ==
  IF digits = <<>> THEN acc
  ELSE DigitsValueBase(Tail(digits), base, acc * base + HexValue[Head(digits)])

IntMax == 2147483647

\* Interface::parseInt: std::stoi(text, &idx, 0) and idx == text.size(). Optional
\* sign, then 0x + hex digits, or 0 + octal digits, or decimal digits; no digit or
\* a value outside int throws (false); anything after the digits gives false.
parseInt(tok) ==
  LET signLen == IF tok # <<>> /\ tok[1] \in {"+", "-"} THEN 1 ELSE 0
      neg == signLen = 1 /\ tok[1] = "-"
      r1 == Substr(tok, signLen)
      hex == Len(r1) >= 3 /\ r1[1] = "0" /\ r1[2] \in {"x", "X"} /\ IsHexDigit(r1[3])
      base == IF hex THEN 16 ELSE IF r1 # <<>> /\ r1[1] = "0" THEN 8 ELSE 10
      pre == IF hex THEN 2 ELSE 0
      r2 == Substr(r1, pre)
      n == DigitRunBase(r2, base)
      mag == DigitsValueBase(SubSeq(r2, 1, n), base, 0)
      inRange == IF neg THEN mag - 1 <= IntMax ELSE mag <= IntMax
  IN [ok |-> n > 0 /\ inRange /\ signLen + pre + n = Len(tok),
      value |-> IF neg THEN 0 - mag ELSE mag]

\* a query that returned without entering a driver: Status{false, message}
Rejected(sensor, args, outcome, message) ==
  [IdleThread EXCEPT !.pc = "done", !.kind = "query", !.sensor = sensor, !.args = args,
                     !.outcome = outcome, !.ret = [ok |-> FALSE, message |-> message]]

\* a driver call that printed a complaint and returned; queryX returns {true, "ok"}
Complained(d, args, kind, outcome) ==
  [IdleThread EXCEPT !.pc = "done", !.kind = kind, !.drv = d, !.sensor = d, !.args = args,
                     !.outcome = outcome, !.ret = StatusOk]

\* int fc = (function_code < 0) ? 0x03 : function_code (0x04 for solar)
ReadFc(d, fcode) ==
  IF fcode < 0 THEN (IF d = "solar" THEN 4 ELSE 3) ELSE fcode

\* battery, solar: fc == 0x03 || fc == 0x04; hoist_hook: fc == 0x03
ReadFcAccepted(d, fc) == IF d = "hoist_hook" THEN fc = 3 ELSE fc = 3 \/ fc = 4

\* if (quantity < 1 || quantity > 125) { print; return; }
QuantityAccepted(qty) == ~(qty < 1 \/ qty > 125)

\* genericRead(static_cast<uint16_t>(addr), static_cast<uint16_t>(qty), fc)
genericRead(d, args, addr, qty, fcode) ==
  LET address == ToU16(addr)
      count == ToU16(qty)
      fc == ReadFc(d, fcode)
  IN IF ~QuantityAccepted(count) THEN Complained(d, args, "get", "quantity_out_of_range")
     ELSE IF ~ReadFcAccepted(d, fc) THEN Complained(d, args, "get", "unsupported")
     ELSE FreshExchange([IdleThread EXCEPT !.drv = d, !.sensor = d, !.args = args,
                                           !.kind = "get", !.left = 1, !.addr = address,
                                           !.qty = count, !.fc = fc])

\* queryX "get": usage and parseInt checks, then genericRead
queryGet(d, args) ==
  IF Len(args) < 2 THEN Rejected(d, args, "usage", "usage: get <addr> [qty] [fc]")
  ELSE IF ~parseInt(args[2]).ok THEN Rejected(d, args, "invalid_argument", "invalid addr")
  ELSE IF Len(args) >= 3 /\ ~parseInt(args[3]).ok
    THEN Rejected(d, args, "invalid_argument", "invalid qty")
  ELSE IF Len(args) >= 4 /\ ~parseInt(args[4]).ok
    THEN Rejected(d, args, "invalid_argument", "invalid fc")
  ELSE genericRead(d, args, parseInt(args[2]).value,
                   IF Len(args) >= 3 THEN parseInt(args[3]).value ELSE 1,
                   IF Len(args) >= 4 THEN parseInt(args[4]).value ELSE -1)

\* queryX "set": usage and parseInt checks, then genericWrite
querySet(d, args, input) ==
  IF Len(args) < 3 THEN Rejected(d, args, "usage", "usage: set <addr> <value> [fc]")
  ELSE IF ~parseInt(args[2]).ok \/ ~parseInt(args[3]).ok
    THEN Rejected(d, args, "invalid_argument", "invalid addr/value")
  ELSE IF Len(args) >= 4 /\ ~parseInt(args[4]).ok
    THEN Rejected(d, args, "invalid_argument", "invalid fc")
  ELSE [WriteRequest(d, parseInt(args[2]).value,
                     IF Len(args) >= 4 THEN parseInt(args[4]).value ELSE -1,
                     input, FALSE)
          EXCEPT !.sensor = d, !.args = args]

\* IoRelayCore::parseRelayNum: relay_num < 1 || relay_num > 16 is refused
parseRelayNum(relay_num) == ~(relay_num < 1 \/ relay_num > 16)

\* one exchange of the relay module for the given command
RelayExchange(args, kind, coil) ==
  FreshExchange([IdleThread EXCEPT !.drv = "io_relay", !.sensor = "io_relay",
                                   !.args = args, !.kind = kind, !.left = 1,
                                   !.addr = coil])

\* IoRelayCore::controlRelay(relay_num, status)
controlRelay(args, relay_num) ==
  IF ~parseRelayNum(relay_num) THEN Complained("io_relay", args, "relay", "bad_channel")
  ELSE RelayExchange(args, "relay", relay_num - 1)

\* IoRelayCore::readRelayStatus(relay_num): one channel when relay_num > 0, else
\* all sixteen
readRelayStatus(args, relay_num) ==
  IF relay_num > 0
    THEN (IF ~parseRelayNum(relay_num)
            THEN Complained("io_relay", args, "relay_read", "bad_channel")
            ELSE RelayExchange(args, "relay_read", relay_num - 1))
    ELSE RelayExchange(args, "relay_read", 0)

\* Interface::queryIoRelay after the args.empty() test
queryIoRelay(args) ==
  LET cmd == args[1]
  IN IF cmd = CmdOn \/ cmd = CmdOff
       THEN (IF Len(args) < 2
               THEN Rejected("io_relay", args, "usage", "usage: io_relay on|off <channel>")
             ELSE IF ~parseInt(args[2]).ok
               THEN Rejected("io_relay", args, "invalid_argument", "invalid channel")
             ELSE controlRelay(args, parseInt(args[2]).value))
     ELSE IF Len(args) >= 2 /\ ~parseInt(args[2]).ok
       THEN Rejected("io_relay", args, "invalid_argument", "invalid channel")
     ELSE readRelayStatus(args, IF Len(args) >= 2 THEN parseInt(args[2]).value ELSE 0)

\* Interface::query(sensor, args): the thread records it can leave behind
query(sensor, args) ==
  IF ~Registered(sensor)
    THEN {Rejected(sensor, args, "unknown_sensor", "sensor not enabled or unknown sensor")}
  ELSE IF args = <<>>
    THEN {Rejected(sensor, args, "missing_command", "missing command")}
  ELSE IF ~KnownCommand(sensor, args[1])
    THEN {Rejected(sensor, args, "unknown_command", "unknown command")}
  ELSE IF sensor = "io_relay" THEN {queryIoRelay(args)}
  ELSE IF args[1] = CmdMap THEN {Complained(sensor, args, "map", "printed")}
  ELSE IF args[1] = CmdGet THEN {queryGet(sensor, args)}
  ELSE IF args[1] = CmdSet THEN {querySet(sensor, args, input) : input \in Inputs}
  ELSE {FreshExchange([IdleThread EXCEPT !.drv = sensor, !.sensor = sensor, !.args = args,
                                         !.kind = "read", !.left = n]) : n \in 1..MaxReads}

\* sensor names a caller may pass: the four drivers and a name no driver has
SensorNames == Drivers \cup {"camera"}

Tok0 == <<"0">>
Tok1 == <<"1">>
Tok5 == <<"5">>
Tok16 == <<"1", "6">>
Tok17 == <<"1", "7">>
Tok100 == <<"1", "0", "0">>
Tok125 == <<"1", "2", "5">>
Tok126 == <<"1", "2", "6">>
Tok65537 == <<"6", "5", "5", "3", "7">>
TokMinus3 == <<"-", "3">>
TokX == <<"x">>
Tok1x == <<"1", "x">>

\* the argument vectors of the modelled calls
ArgLists ==
  {<<>>, <<CmdBogus>>, <<CmdMap>>, <<CmdBasic>>, <<CmdAll>>,
   <<CmdGet>>, <<CmdGet, TokX>>, <<CmdGet, Tok0>>,
   <<CmdGet, Tok0, Tok0>>, <<CmdGet, Tok0, Tok125>>, <<CmdGet, Tok0, Tok126>>,
   <<CmdGet, Tok0, Tok65537>>, <<CmdGet, Tok0, Tok1x>>,
   <<CmdGet, Tok0, Tok1, Tok5>>, <<CmdGet, Tok0, Tok1, TokX>>,
   <<CmdSet, Tok100>>, <<CmdSet, TokX, Tok1>>, <<CmdSet, Tok100, Tok1>>,
   <<CmdSet, Tok100, Tok1, TokX>>, <<CmdSet, Tok100, Tok1, Tok5>>,
   <<CmdOn>>, <<CmdOn, Tok1>>, <<CmdOn, Tok17>>, <<CmdOn, TokX>>,
   <<CmdOff, Tok16>>, <<CmdOff, Tok0>>,
   <<CmdRead>>, <<CmdRead, Tok1>>, <<CmdRead, Tok17>>, <<CmdRead, TokMinus3>>,
   <<CmdRead, TokX>>}

\* Interface::query(sensor, args) called by a thread of the application
QueryCall ==
  /\ Resting("caller")
  /\ \E sensor \in SensorNames, args \in ArgLists :
       \E r \in query(sensor, args) : th' = [th EXCEPT !["caller"] = r]
  /\ UNCHANGED <<guardMtx, lastSend, socket_mutex_, socket_fd_, output_mutex_, now, wire>>
  /\ UNCHANGED <<decVars, lidVars, orcVars, schVars, frmVars, relVars, lckVars>>


-----------------------------------------------------------------------------
(***************************************************************************)
(* One exchange: sendModbusPacket                                          *)
(***************************************************************************)

InExchange(t) == th[t].pc \in {"sleep", "locksock", "connect1", "xfer1", "connect2", "xfer2", "ret"}
InFlight(t) == th[t].pc \in {"connect1", "xfer1", "connect2", "xfer2"}

\* sendModbusPacket entry: the GatewaySerialGuard constructor (lock, look up the
\* endpoint, decide whether to sleep); hoist_hook has no guard and goes on
EnterExchange(t) ==
  /\ th[t].pc = "guard"
  /\ LET d == th[t].drv
         key == EndpointKey(d)
     IN IF UsesGuard(d)
          THEN /\ guardMtx = "none"
               /\ guardMtx' = t
               /\ IF MustSleep(lastSend[key], now)
                    THEN th' = [th EXCEPT ![t].pc = "sleep",
                                          ![t].wake = GuardDue(lastSend[key])]
                    ELSE th' = [th EXCEPT ![t].pc = "locksock"]
          ELSE /\ th' = [th EXCEPT ![t].pc = "locksock"]
               /\ UNCHANGED guardMtx
  /\ UNCHANGED <<lastSend, socket_mutex_, socket_fd_, output_mutex_, now, wire>>
  /\ UNCHANGED <<decVars, lidVars, orcVars, schVars, frmVars, relVars, lckVars>>

\* std::this_thread::sleep_for(due - now) returns once the clock has reached due
Wake(t) ==
  /\ th[t].pc = "sleep"
  /\ now >= th[t].wake
  /\ th' = [th EXCEPT ![t].pc = "locksock", ![t].wake = 0]
  /\ UNCHANGED <<guardMtx, lastSend, socket_mutex_, socket_fd_, output_mutex_, now, wire>>
  /\ UNCHANGED <<decVars, lidVars, orcVars, schVars, frmVars, relVars, lckVars>>

\* std::lock_guard<std::mutex> lock(socket_mutex_)
LockSocket(t) ==
  /\ th[t].pc = "locksock"
  /\ socket_mutex_[th[t].drv] = "none"
  /\ socket_mutex_' = [socket_mutex_ EXCEPT ![th[t].drv] = t]
  /\ th' = [th EXCEPT ![t].pc = "connect1"]
  /\ UNCHANGED <<guardMtx, lastSend, socket_fd_, output_mutex_, now, wire>>
  /\ UNCHANGED <<decVars, lidVars, orcVars, schVars, frmVars, relVars, lckVars>>

AfterConnect_retry(pc, fd) ==
  IF fd >= 0 THEN (IF pc = "connect2" THEN "xfer2" ELSE "xfer1")
  ELSE IF pc = "connect1" THEN "connect2" ELSE "ret"

\* if (!ensureConnectionLocked()) return false; both before the first
\* sendAndReceiveLocked and before the retry
AfterConnect(pc, fd) ==
  IF fd >= 0 THEN (IF pc = "connect2" THEN "xfer2" ELSE "xfer1") ELSE "ret"

\* ensureConnectionLocked, first attempt or retry; a failure returns false
Connect(t) ==
  /\ th[t].pc \in {"connect1", "connect2"}
  /\ \E outcome \in ConnectOutcomes :
       LET d == th[t].drv
           fd == ensureConnectionLocked(socket_fd_[d], outcome, LowestFreeFd)
           retry == th[t].pc = "connect2"
       IN /\ socket_fd_' = [socket_fd_ EXCEPT ![d] = fd]
          /\ th' = [th EXCEPT
                      ![t].pc = AfterConnect(th[t].pc, fd),
                      ![t].c2 = IF retry THEN (IF fd >= 0 THEN "ok" ELSE "fail") ELSE @,
                      ![t].ok = FALSE]
  /\ UNCHANGED <<guardMtx, lastSend, socket_mutex_, output_mutex_, now, wire>>
  /\ UNCHANGED <<decVars, lidVars, orcVars, schVars, frmVars, relVars, lckVars>>

AfterXfer_again(pc, ok) == IF ok THEN "ret" ELSE "connect2"

\* sendModbusPacket after sendAndReceiveLocked: success returns, the first failure
\* reconnects and retries, the retry returns whatever it got
AfterXfer(pc, ok) ==
  IF pc = "xfer1" THEN (IF ok THEN "ret" ELSE "connect2") ELSE "ret"

\* sendAndReceiveLocked followed by disconnectLocked
Xfer(t) ==
  /\ th[t].pc \in {"xfer1", "xfer2"}
  /\ \E outcome \in XferOutcomes :
       LET d == th[t].drv
           ok == sendAndReceiveLocked(outcome)
           first == th[t].pc = "xfer1"
           res == IF ok THEN "ok" ELSE "fail"
       IN /\ socket_fd_' = [socket_fd_ EXCEPT ![d] = disconnectLocked(@)]
          /\ th' = [th EXCEPT
                      ![t].pc = AfterXfer(th[t].pc, ok),
                      ![t].x1 = IF first THEN res ELSE @,
                      ![t].x2 = IF first THEN @ ELSE res,
                      ![t].xfers = @ + 1,
                      ![t].ok = ok,
                      ![t].resp = IF ok THEN th[t].xfers + 1 ELSE @,
                      ![t].att = [made |-> TRUE, sent |-> outcome.sent,
                                  received |-> ~(outcome.sent < 0), n |-> outcome.n]]
  /\ UNCHANGED <<guardMtx, lastSend, socket_mutex_, output_mutex_, now, wire>>
  /\ UNCHANGED <<decVars, lidVars, orcVars, schVars, frmVars, relVars, lckVars>>

\* what a device may answer to a read with function code fc: a truncated header,
\* an exception, no data, one word, one word and a stray byte, two words
DeviceResponses(fc) ==
  {SubSeq(Header7, 1, 5),
   Header7 \o <<fc + 128, 2>>,
   Header7 \o <<fc, 0>>,
   Header7 \o <<fc, 2, 0, 5>>,
   Header7 \o <<fc, 2, 0, 5, 0>>,
   Header7 \o <<fc, 4, 0, 5, 0, 5>>}

Finished_reread(r, outcome) ==
  IF r.kind = "read" THEN IdleThread
  ELSE IF outcome = "protocol_error" THEN FreshExchange(r)
  ELSE [IdleThread EXCEPT !.pc = "done", !.kind = r.kind, !.drv = r.drv,
                          !.addr = r.addr, !.input = r.input, !.outcome = outcome,
                          !.ret = StatusOk, !.sensor = r.sensor, !.args = r.args,
                          !.qty = r.qty, !.fc = r.fc, !.xfers = r.xfers, !.att = r.att]

\* what the query leaves behind once its last exchange has returned
Finished(r, outcome) ==
  IF r.kind = "read"
    THEN IdleThread
    ELSE [IdleThread EXCEPT !.pc = "done", !.kind = r.kind, !.drv = r.drv,
                            !.addr = r.addr, !.input = r.input, !.outcome = outcome,
                            !.ret = StatusOk, !.sensor = r.sensor, !.args = r.args,
                            !.qty = r.qty, !.fc = r.fc, !.xfers = r.xfers,
                            !.att = r.att]

\* outcomes a driver command can print once its exchange returned
Outcomes(r) ==
  IF r.kind = "read" THEN {"read_done"}
  ELSE IF ~r.ok THEN {"io_error"}
  ELSE IF r.kind = "get"
    THEN {IF parseRegisterResponse(r.drv, resp, r.fc, r.qty).ok
            THEN "decoded" ELSE "protocol_error" : resp \in DeviceResponses(r.fc)}
  ELSE IF r.kind = "relay_read" THEN {"relay_status", "protocol_error"}
  ELSE {"written", "abnormal"}

\* The sections of an aggregated info command, in the order the driver calls them.
\* Each read of a section says what ends the section there: "any" (the exchange or
\* the decode failed: `if (!sendRead(...)) return; if (!parse(...)) return;`), "io"
\* (only a failed exchange: the decode comes after all reads), "never" (the read
\* is optional or its result is tested later).
Section(name, reads) == [name |-> name, reads |-> reads]
BatterySection(info_type) ==
  CASE info_type = "basic" -> Section("basic", <<"any", "never">>)
    [] info_type = "cell" -> Section("cell", <<"any">>)
    [] info_type = "temp" -> Section("temp", <<"any">>)
    [] info_type = "mos" -> Section("mos", <<"never", "never">>)
    [] info_type = "protect" -> Section("protect", <<"any">>)
SolarSection(info_type) ==
  CASE info_type = "basic" -> Section("basic", <<"never", "never", "never", "never">>)
    [] info_type = "status" -> Section("status", <<"io", "io">>)
HoistHookSection(info_type) ==
  CASE info_type = "speaker" -> Section("speaker", <<"any">>)
    [] info_type = "light" -> Section("light", <<"any">>)
    [] info_type = "rfid" -> Section("rfid", <<"any", "any">>)
    [] info_type = "power" -> Section("power", <<"any">>)
    [] info_type = "gps" -> Section("gps", <<>>)

\* queryBatteryInfo / querySolarInfo / queryHookInfo: the sections of info_type
Sections(d, info_type) ==
  CASE d = "battery" ->
         IF info_type = "all"
           THEN [k \in 1..5 |-> BatterySection(<<"basic", "cell", "temp", "mos", "protect">>[k])]
           ELSE <<BatterySection(info_type)>>
    [] d = "solar" ->
         IF info_type = "all"
           THEN <<SolarSection("basic"), SolarSection("status")>>
           ELSE <<SolarSection(info_type)>>
    [] d = "hoist_hook" ->
         IF info_type = "all"
           THEN [k \in 1..5 |-> HoistHookSection(<<"speaker", "light", "rfid", "power", "gps">>[k])]
           ELSE <<HoistHookSection(info_type)>>

\* the info commands of the modelled drivers
InfoTypes(d) ==
  CASE d = "battery" -> {"basic", "mos", "all"}
    [] d = "solar" -> {"basic", "status", "all"}
    [] d = "hoist_hook" -> {"rfid", "all"}

\* does this read's result end the section it belongs to
SectionEnds(policy, ok, parsed) ==
  \/ policy = "any" /\ ~(ok /\ parsed)
  \/ policy = "io" /\ ~ok

AfterSectionEnds_abort(plan) == <<>>

\* `return` inside a section function: the caller goes on with the next section
AfterSectionEnds(plan) == Tail(plan)

\* a section is entered: one more entry in the log of the command
Entered(log, name) == Append(log, [name |-> name, attempted |-> 0, ended |-> FALSE])

\* the thread goes on with the plan: sections without a read left are passed, the
\* next read starts its exchange, and with no section left the command returns
RECURSIVE Proceed(_)
Proceed(r) ==
  IF r.plan = <<>>
    THEN [r EXCEPT !.pc = "done", !.outcome = "info_done", !.ret = StatusOk]
  ELSE IF Head(r.plan).reads = <<>>
    THEN LET rest == Tail(r.plan)
         IN Proceed([r EXCEPT !.plan = rest,
                              !.log = IF rest = <<>> THEN @ ELSE Entered(@, Head(rest).name)])
  ELSE FreshExchange([r EXCEPT !.log[Len(r.log)].attempted = @ + 1])

\* the command is called: its first section is entered
StartInfo(d, info_type) ==
  LET plan == Sections(d, info_type)
  IN Proceed([IdleThread EXCEPT !.drv = d, !.sensor = d, !.kind = "info",
                                !.args = <<info_type>>, !.plan = plan,
                                !.log = Entered(<<>>, Head(plan).name)])

\* one read of a section returned (ok: sendModbusPacket's result, parsed:
\* parseRegisterResponse's)
AfterInfoRead(r, ok, parsed) ==
  LET cur == Head(r.plan)
      ends == SectionEnds(Head(cur.reads), ok, parsed)
      plan == IF ends THEN AfterSectionEnds(r.plan)
              ELSE <<[cur EXCEPT !.reads = Tail(@)]>> \o Tail(r.plan)
      log == [r.log EXCEPT ![Len(r.log)].ended = ends]
      entered == ends /\ plan # <<>>
  IN Proceed([r EXCEPT !.plan = plan,
                       !.log = IF entered THEN Entered(log, Head(plan).name) ELSE log])

\* return from sendModbusPacket: ~lock_guard, ~GatewaySerialGuard (record the time,
\* unlock); then the driver command goes on to its next read or returns to
\* Interface::query, which returns Status{true, "ok"}
Return(t) ==
  /\ th[t].pc = "ret"
  /\ LET d == th[t].drv
         key == EndpointKey(d)
     IN /\ socket_mutex_' = [socket_mutex_ EXCEPT ![d] = "none"]
        /\ IF UsesGuard(d)
             THEN /\ lastSend' = [lastSend EXCEPT ![key] = now]
                  /\ guardMtx' = "none"
                  /\ wire' = [wire EXCEPT !.released[key] = now, !.lastEnd[key] = now]
             ELSE /\ UNCHANGED <<lastSend, guardMtx>>
                  /\ wire' = [wire EXCEPT !.lastEnd[key] = now]
        /\ IF th[t].kind = "info"
             THEN /\ \E parsed \in (IF th[t].ok THEN BOOLEAN ELSE {FALSE}) :
                       th' = [th EXCEPT ![t] = AfterInfoRead(th[t], th[t].ok, parsed)]
                  /\ UNCHANGED output_mutex_
           ELSE IF th[t].left > 1
             THEN /\ th' = [th EXCEPT ![t] = FreshExchange(
                              [th[t] EXCEPT !.left = @ - 1])]
                  /\ UNCHANGED output_mutex_
             ELSE /\ \E o \in Outcomes(th[t]) : th' = [th EXCEPT ![t] = Finished(th[t], o)]
                  /\ output_mutex_' = IF th[t].outLock THEN "none" ELSE output_mutex_
  /\ UNCHANGED <<socket_fd_, now>>
  /\ UNCHANGED <<decVars, lidVars, orcVars, schVars, frmVars, relVars, lckVars>>

\* Interface::query(d, {info_type}) for an info command, from the caller thread
QueryInfo ==
  /\ Resting("caller")
  /\ \E d \in WriteDrivers : \E info_type \in InfoTypes(d) :
       th' = [th EXCEPT !["caller"] = StartInfo(d, info_type)]
  /\ UNCHANGED <<guardMtx, lastSend, socket_mutex_, socket_fd_, output_mutex_, now, wire>>
  /\ UNCHANGED <<decVars, lidVars, orcVars, schVars, frmVars, relVars, lckVars>>

MaxGaps == 6       \* the clock of an aggregated command stops after MaxGaps gaps

\* the steady clock advances by the gap the serial guard enforces
TickGap ==
  /\ now < MaxGaps * MinGapMs
  /\ now' = now + MinGapMs
  /\ UNCHANGED <<th, guardMtx, lastSend, socket_mutex_, socket_fd_, output_mutex_, wire>>
  /\ UNCHANGED <<decVars, lidVars, orcVars, schVars, frmVars, relVars, lckVars>>

\* the steady clock advances
Tick ==
  /\ now < MaxTicks * TickMs
  /\ now' = now + TickMs
  /\ UNCHANGED <<th, guardMtx, lastSend, socket_mutex_, socket_fd_, output_mutex_, wire>>
  /\ UNCHANGED <<decVars, lidVars, orcVars, schVars, frmVars, relVars, lckVars>>

-----------------------------------------------------------------------------
(***************************************************************************)
(* Orchestrator lifecycle: Interface::init, start, stop, the polling       *)
(* scheduler and the snapshot reporter.  Rates are in milli-hertz, periods *)
(* in microseconds.                                                        *)
(***************************************************************************)

\* bound on the snapshot updates the scheduler makes
MaxUpdates == 2

LifeDrivers == {"battery", "multi_turn_encoder"}

\* query_hz values a configuration file may hold, in mHz
HzValues == {-1000, 0, 20, 100, 1000, 50000, 1000000}

\* the *Defaults members as the header initialises them: enable = true, query_hz = 0.0
BuiltinDefaults == [enable |-> [d \in LifeDrivers |-> TRUE], hz |-> [d \in LifeDrivers |-> 0]]

\* contents of the configuration file
ConfigFiles == [enable : [LifeDrivers -> BOOLEAN], hz : [LifeDrivers -> HzValues]]

NoEffects ==
  [loaded |-> FALSE, built |-> FALSE, started |-> {}, stopped |-> {}, launched |-> {},
   failed |-> {}]

NoCall == [op |-> "none", ok |-> FALSE, message |-> "none", did |-> NoEffects]

\* Interface::Interface() with the file that is on disk
FreshInterface(file) ==
  [initialized_ |-> FALSE, started_ |-> FALSE, config_loaded_ |-> FALSE,
   file |-> file, defaults |-> BuiltinDefaults,
   cores |-> {}, drivers_ |-> {}, encoderRunning |-> FALSE,
   auto_query_running_ |-> FALSE, snapshot_printer_running_ |-> FALSE,
   tasks |-> {}, sched |-> "none", printer |-> "none", updates |-> 0,
   api |-> "idle", last |-> NoCall]

Returned(op, ok, message, did) == [op |-> op, ok |-> ok, message |-> message, did |-> did]

InitNeeded_always(o) == TRUE

\* if (initialized_) return Status{true, "... already initialized"}
InitNeeded(o) == ~o.initialized_

\* loadDefaultConfigIfPresent: what the file system answers
LoadOutcomes == {"loaded", "not_found", "open_failed"}

\* Interface::init
InitCall ==
  /\ orch.api = "idle"
  /\ IF ~InitNeeded(orch)
       THEN orch' = [orch EXCEPT !.last = Returned("init", TRUE, "already initialized", NoEffects)]
       ELSE \E outcome \in LoadOutcomes :
              LET load == ~orch.config_loaded_ /\ outcome = "loaded"
                  defs == IF load THEN orch.file ELSE orch.defaults
                  built == {d \in LifeDrivers : defs.enable[d]}
              IN IF ~orch.config_loaded_ /\ outcome = "open_failed"
                   THEN orch' = [orch EXCEPT
                          !.last = Returned("init", FALSE, "failed to open config file", NoEffects)]
                   ELSE orch' = [orch EXCEPT
                          !.config_loaded_ = @ \/ load,
                          !.defaults = defs,
                          !.cores = built,
                          !.drivers_ = built,
                          !.initialized_ = TRUE,
                          !.last = Returned("init", TRUE, "initialized",
                                     [NoEffects EXCEPT !.loaded = load, !.built = TRUE])]
  /\ UNCHANGED <<decVars, lidVars, trVars, schVars, frmVars, relVars, lckVars>>

Min(a, b) == IF b < a THEN b ELSE a
Max(a, b) == IF a < b THEN b ELSE a

SafeHz_unclamped(hz) == hz

\* const double safe_hz = std::min(std::max(hz, 0.1), 50.0)
SafeHz(hz) == Min(Max(hz, 100), 50000)

\* t.period = duration_cast<steady_clock::duration>(duration<double>(1.0 / safe_hz))
PeriodUs(hz) == 1000000000 \div SafeHz(hz)

\* add_task for every driver: skipped when hz <= 0 or the driver is not registered
PollTasks(o) ==
  {[sensor |-> d, hz |-> o.defaults.hz[d], period |-> PeriodUs(o.defaults.hz[d])] :
     d \in {e \in LifeDrivers : ~(o.defaults.hz[e] <= 0) /\ e \in o.drivers_}}

StartAllowed_always(o) == TRUE

\* if (!initialized_) return Status{false, "sdk not initialized"}
StartAllowed(o) == o.initialized_

AlreadyStarted_never(o) == FALSE

\* if (started_) return Status{true, "all drivers already started"}
AlreadyStarted(o) == o.started_

\* the start lambda of the multi_turn_encoder adapter
EncoderStart(connected) ==
  IF connected THEN [ok |-> TRUE, message |-> "encoder started"]
  ELSE [ok |-> FALSE, message |-> "encoder connect failed"]

\* "start failed on " + it->first + ": " + s.message
StartFailedMessage(name, s) == "start failed on " \o name \o ": " \o s.message

StartAborts_never(s) == FALSE

\* if (!s.ok) return Status{false, ...}
StartAborts(s) == ~s.ok

\* Interface::start: the adapters' start() in the registry's iteration order (the
\* encoder's connect may fail and abort), then startAutoQueryPolling, which also
\* starts the snapshot printer
StartCall ==
  /\ orch.api = "idle"
  /\ IF ~StartAllowed(orch)
       THEN orch' = [orch EXCEPT !.last = Returned("start", FALSE, "sdk not initialized", NoEffects)]
     ELSE IF AlreadyStarted(orch)
       THEN orch' = [orch EXCEPT !.last = Returned("start", TRUE, "all drivers already started", NoEffects)]
     ELSE \E connected \in BOOLEAN, before \in SUBSET (orch.drivers_ \ {"multi_turn_encoder"}) :
            LET s == IF "multi_turn_encoder" \in orch.drivers_
                       THEN EncoderStart(connected) ELSE StatusOk
                failed == IF s.ok THEN {} ELSE {"multi_turn_encoder"}
            IN
            IF StartAborts(s)
              THEN orch' = [orch EXCEPT
                     !.last = Returned("start", FALSE,
                                StartFailedMessage("multi_turn_encoder", s),
                                [NoEffects EXCEPT !.started = before \cup {"multi_turn_encoder"},
                                                  !.failed = failed])]
              ELSE /\ before = orch.drivers_ \ {"multi_turn_encoder"}
                   /\ LET tasks == PollTasks(orch)
                      IN orch' = [orch EXCEPT
                           !.encoderRunning = @ \/ "multi_turn_encoder" \in orch.drivers_,
                           !.auto_query_running_ = TRUE,
                           !.tasks = tasks,
                           !.sched = IF tasks # {} THEN "check" ELSE @,
                           !.snapshot_printer_running_ = TRUE,
                           !.printer = "check",
                           !.started_ = TRUE,
                           !.last = Returned("start", TRUE, "all drivers started",
                                      [NoEffects EXCEPT
                                         !.started = orch.drivers_,
                                         !.failed = failed,
                                         !.launched = (IF tasks # {} THEN {"scheduler"} ELSE {})
                                                        \cup {"reporter"}])]
  /\ UNCHANGED <<decVars, lidVars, trVars, schVars, frmVars, relVars, lckVars>>

\* Interface::stop up to stopAutoQueryPolling's auto_query_running_ = false
StopCall ==
  /\ orch.api = "idle"
  /\ IF ~orch.initialized_
       THEN orch' = [orch EXCEPT !.last = Returned("stop", FALSE, "sdk not initialized", NoEffects)]
     ELSE IF ~orch.started_
       THEN orch' = [orch EXCEPT !.last = Returned("stop", TRUE, "all drivers already stopped", NoEffects)]
     ELSE orch' = [orch EXCEPT !.auto_query_running_ = FALSE, !.api = "join_sched",
                               !.last = Returned("stop", FALSE, "pending", NoEffects)]
  /\ UNCHANGED <<decVars, lidVars, trVars, schVars, frmVars, relVars, lckVars>>

JoinDone_nowait(state) == TRUE

\* thread.join() returns once the thread function has returned (or there is no thread)
JoinDone(state) == state \in {"none", "exited"}

\* a joined thread is gone
Joined(state) == IF state = "exited" THEN "none" ELSE state

\* stopAutoQueryPolling: join, clear; then stopSnapshotPrinter's running = false
StopJoinScheduler ==
  /\ orch.api = "join_sched"
  /\ JoinDone(orch.sched)
  /\ orch' = [orch EXCEPT !.sched = Joined(@), !.snapshot_printer_running_ = FALSE,
                          !.api = "join_printer"]
  /\ UNCHANGED <<decVars, lidVars, trVars, schVars, frmVars, relVars, lckVars>>

\* stopSnapshotPrinter: join
StopJoinPrinter ==
  /\ orch.api = "join_printer"
  /\ JoinDone(orch.printer)
  /\ orch' = [orch EXCEPT !.printer = Joined(@), !.api = "stop_adapters"]
  /\ UNCHANGED <<decVars, lidVars, trVars, schVars, frmVars, relVars, lckVars>>

\* Interface::stop: the adapters' stop() (none fails), started_ = false, return
StopAdapters ==
  /\ orch.api = "stop_adapters"
  /\ orch' = [orch EXCEPT !.encoderRunning = FALSE, !.started_ = FALSE, !.api = "idle",
                          !.last = Returned("stop", TRUE, "all drivers stopped",
                                     [NoEffects EXCEPT !.stopped = orch.drivers_])]
  /\ UNCHANGED <<decVars, lidVars, trVars, schVars, frmVars, relVars, lckVars>>

\* the polling worker: while (auto_query_running_) { run the first due task and
\* store its snapshot, or sleep 20 ms }
SchedulerStep ==
  /\ \/ /\ orch.sched = "check"
        /\ IF orch.auto_query_running_
             THEN \/ orch.updates < MaxUpdates /\ orch' = [orch EXCEPT !.sched = "poll"]
                  \/ orch' = [orch EXCEPT !.sched = "sleep"]
             ELSE orch' = [orch EXCEPT !.sched = "exited"]
     \/ orch.sched = "poll" /\ orch' = [orch EXCEPT !.sched = "update"]
     \/ orch.sched = "update" /\ orch' = [orch EXCEPT !.sched = "check", !.updates = @ + 1]
     \/ orch.sched = "sleep" /\ orch' = [orch EXCEPT !.sched = "check"]
  /\ UNCHANGED <<decVars, lidVars, trVars, schVars, frmVars, relVars, lckVars>>

\* the snapshot printer: while (snapshot_printer_running_) { printSnapshotTick; sleep 1 s }
PrinterStep ==
  /\ \/ /\ orch.printer = "check"
        /\ orch' = [orch EXCEPT !.printer = IF orch.snapshot_printer_running_
                                              THEN "print" ELSE "exited"]
     \/ orch.printer = "print" /\ orch' = [orch EXCEPT !.printer = "sleep"]
     \/ orch.printer = "sleep" /\ orch' = [orch EXCEPT !.printer = "check"]
  /\ UNCHANGED <<decVars, lidVars, trVars, schVars, frmVars, relVars, lckVars>>

-----------------------------------------------------------------------------
(***************************************************************************)
(* Polling worker (startAutoQueryPolling), queryWithCapturedOutput, the    *)
(* snapshot printer (printSnapshotTick) and dispatchCommand.  next_due and *)
(* period are in microseconds, `now` in milliseconds.                      *)
(***************************************************************************)

\* bounds of the scheduler model
MaxSeconds == 1    \* the clock stops advancing after MaxSeconds seconds
MaxStarts == 2     \* start() calls that launch the workers

\* the add_task calls of startAutoQueryPolling, in source order
SchedDrivers == <<"battery", "solar", "hoist_hook", "io_relay", "multi_turn_encoder">>

\* spd_lidar_instances_[i].id, in configuration order
LidarInstances == <<"front", "rear">>

Range(s) == {s[k] : k \in DOMAIN s}

\* "spd_lidar:" + spd_lidar_instances_[i].id
LidarKey(id) == IF id = "front" THEN "spd_lidar:front" ELSE "spd_lidar:rear"

SnapshotKeys == Range(SchedDrivers) \cup {LidarKey(id) : id \in Range(LidarInstances)}

\* query_hz values of the polled configurations, in mHz
PollHz == {0, 500, 50000}

\* what init() left behind: the *_defaults_.query_hz, spd_lidar_query_hz_, the
\* instances' enable flags and the adapter registry
PollConfigs ==
  {[hz |-> [d \in Range(SchedDrivers) |->
              IF d \in slow THEN 500 ELSE IF d \in fast THEN 50000 ELSE 0],
    lidar_hz |-> lhz,
    enable |-> [id \in Range(LidarInstances) |-> id \in on],
    drivers_ |-> Range(SchedDrivers) \cup {"spd_lidar"}] :
     slow \in {{"battery", "io_relay"}},
     fast \in {{"solar"}, {"solar", "hoist_hook", "multi_turn_encoder"}},
     lhz \in {0, 50000},
     on \in {{"rear"}, {"front", "rear"}}}
    \cup {[hz |-> [d \in Range(SchedDrivers) |-> 0], lidar_hz |-> 0,
            enable |-> [id \in Range(LidarInstances) |-> TRUE],
            drivers_ |-> Range(SchedDrivers) \cup {"spd_lidar"}]}

\* add_task: a task at the back of `tasks`, or nothing when hz <= 0 or the sensor
\* has no adapter
AddTask(tasks, cfg, sensor, key, hz, t_now) ==
  IF hz <= 0 THEN tasks
  ELSE IF sensor \notin cfg.drivers_ THEN tasks
  ELSE Append(tasks, [sensor |-> sensor, snapshot_key |-> key,
                      period |-> PeriodUs(hz), next_due |-> t_now])

RECURSIVE AddDriverTasks(_, _, _, _)
AddDriverTasks(tasks, cfg, k, t_now) ==
  IF k > Len(SchedDrivers) THEN tasks
  ELSE AddDriverTasks(AddTask(tasks, cfg, SchedDrivers[k], SchedDrivers[k],
                              cfg.hz[SchedDrivers[k]], t_now),
                      cfg, k + 1, t_now)

RECURSIVE AddLidarTasks(_, _, _, _)
AddLidarTasks(tasks, cfg, k, t_now) ==
  IF k > Len(LidarInstances) THEN tasks
  ELSE AddLidarTasks(IF ~cfg.enable[LidarInstances[k]] THEN tasks
                     ELSE AddTask(tasks, cfg, "spd_lidar", LidarKey(LidarInstances[k]),
                                  cfg.lidar_hz, t_now),
                     cfg, k + 1, t_now)

\* the task vector startAutoQueryPolling builds at steady_clock time t_now
BuildTasks(cfg, t_now) ==
  LET drv == AddDriverTasks(<<>>, cfg, 1, t_now)
  IN IF cfg.lidar_hz > 0 THEN AddLidarTasks(drv, cfg, 1, t_now) ELSE drv

NoPoll == [key |-> "none", tick |-> 0, due |-> 0, period |-> 0, began |-> 0, ended |-> 0]

\* the polling side of a constructed Interface
IdlePoller(cfg) ==
  [cfg |-> cfg, auto_query_running_ |-> FALSE, thread |-> "none", tasks |-> <<>>,
   pc |-> "none", tick |-> 0, i |-> 0, wake |-> 0,
   captured |-> {}, polls |-> 0, starts |-> 0, api |-> "idle", last |-> NoPoll]

\* no entry under a key: poll 0
NoText == [poll |-> 0, text |-> {}]

IdleReporter ==
  [snapshot_printer_running_ |-> FALSE, thread |-> "none", pc |-> "none", wake |-> 0,
   outputs |-> [k \in SnapshotKeys |-> NoText],
   statuses |-> [k \in SnapshotKeys |-> 0],
   times |-> [k \in SnapshotKeys |-> 0]]

EmptySnapshot ==
  [latest_query_output_ |-> [k \in SnapshotKeys |-> NoText],
   latest_query_status_ |-> [k \in SnapshotKeys |-> 0],
   latest_query_time_ |-> [k \in SnapshotKeys |-> 0]]

\* std::cout's stream buffer, and whose text reached the capture buffer (oss) of
\* the running poll
IdleConsole == [rdbuf |-> "terminal", oss |-> {}]

\* Interface::start reaching startAutoQueryPolling (no worker exists: stop() joined
\* them): the flag, the tasks at `now`, the worker if there is a task, the printer
StartAutoQueryPolling ==
  /\ poller.api = "idle"
  /\ poller.thread = "none" /\ reporter.thread = "none"
  /\ poller.starts < MaxStarts
  /\ LET tasks == BuildTasks(poller.cfg, now * 1000)
     IN poller' = [poller EXCEPT !.auto_query_running_ = TRUE,
                                 !.tasks = tasks,
                                 !.thread = IF tasks # <<>> THEN "running" ELSE "none",
                                 !.pc = IF tasks # <<>> THEN "loop" ELSE "none",
                                 !.starts = @ + 1]
  /\ reporter' = [reporter EXCEPT !.snapshot_printer_running_ = TRUE,
                                  !.thread = "running", !.pc = "loop"]
  /\ UNCHANGED <<snapshot, snapshot_mutex_, dispatcher, console>>
  /\ UNCHANGED <<decVars, lidVars, trVars, orcVars, frmVars, relVars, lckVars>>

\* Interface::stop: stopAutoQueryPolling's auto_query_running_ = false
StopAutoQueryPolling ==
  /\ poller.api = "idle"
  /\ reporter.thread # "none"
  /\ poller' = [poller EXCEPT !.auto_query_running_ = FALSE, !.api = "join_worker"]
  /\ UNCHANGED <<snapshot, snapshot_mutex_, reporter, dispatcher, console>>
  /\ UNCHANGED <<decVars, lidVars, trVars, orcVars, frmVars, relVars, lckVars>>

\* stopAutoQueryPolling: join and clear; stopSnapshotPrinter's running = false
JoinWorker ==
  /\ poller.api = "join_worker"
  /\ JoinDone(poller.thread)
  /\ poller' = [poller EXCEPT !.thread = Joined(@), !.pc = "none", !.api = "join_printer"]
  /\ reporter' = [reporter EXCEPT !.snapshot_printer_running_ = FALSE]
  /\ UNCHANGED <<snapshot, snapshot_mutex_, dispatcher, console>>
  /\ UNCHANGED <<decVars, lidVars, trVars, orcVars, frmVars, relVars, lckVars>>

\* stopSnapshotPrinter: join; stop() then returns
JoinPrinter ==
  /\ poller.api = "join_printer"
  /\ JoinDone(reporter.thread)
  /\ reporter' = [reporter EXCEPT !.thread = Joined(@), !.pc = "none"]
  /\ poller' = [poller EXCEPT !.api = "idle"]
  /\ UNCHANGED <<snapshot, snapshot_mutex_, dispatcher, console>>
  /\ UNCHANGED <<decVars, lidVars, trVars, orcVars, frmVars, relVars, lckVars>>

FirstDue_last(tasks, tick, i) ==
  LET due == {j \in i..Len(tasks) : ~(tick < tasks[j].next_due)}
  IN IF due = {} THEN 0 ELSE CHOOSE j \in due : \A k \in due : k <= j

\* for (i = 0; i < tasks.size(); ++i) { if (tick < tasks[i].next_due) continue; ... break; }
\* the index (from 1) of the task the scan runs, 0 when it runs none
RECURSIVE FirstDue(_, _, _)
FirstDue(tasks, tick, i) ==
  IF i > Len(tasks) THEN 0
  ELSE IF tick < tasks[i].next_due THEN FirstDue(tasks, tick, i + 1)
  ELSE i

OutputLockFree_always(owner) == TRUE

\* std::lock_guard<std::mutex> lock(output_mutex_) can be taken
OutputLockFree(owner) == owner = "none"

SnapshotLockFree_always(owner) == TRUE

\* std::lock_guard<std::mutex> lock(snapshot_mutex_) can be taken
SnapshotLockFree(owner) == owner = "none"

\* operator<< on std::cout by thread `who`: the text lands where rdbuf points
Write(c, who) ==
  IF c.rdbuf = "capture" THEN [c EXCEPT !.oss = @ \cup {who}] ELSE c

NextDue_fixedrate(task, t_now) == task.next_due + task.period

\* tasks[i].next_due = std::chrono::steady_clock::now() + tasks[i].period
NextDue(task, t_now) == t_now + task.period

\* worker loop head: while (auto_query_running_) { tick = now(); scan ... } and
\* if (!ran) sleep_for(20 ms)
WorkerScan ==
  /\ poller.thread = "running" /\ poller.pc = "loop"
  /\ IF ~poller.auto_query_running_
       THEN poller' = [poller EXCEPT !.thread = "exited", !.pc = "none"]
       ELSE LET tick == now * 1000
                i == FirstDue(poller.tasks, tick, 1)
            IN IF i = 0
                 THEN poller' = [poller EXCEPT !.pc = "sleep", !.tick = tick, !.i = 0,
                                               !.wake = now + 20]
                 ELSE poller' = [poller EXCEPT !.pc = "capture", !.tick = tick, !.i = i]
  /\ UNCHANGED <<snapshot, snapshot_mutex_, reporter, dispatcher, console>>
  /\ UNCHANGED <<decVars, lidVars, trVars, orcVars, frmVars, relVars, lckVars>>

\* std::this_thread::sleep_for(std::chrono::milliseconds(20)) returns
WorkerWake ==
  /\ poller.thread = "running" /\ poller.pc = "sleep"
  /\ now >= poller.wake
  /\ poller' = [poller EXCEPT !.pc = "loop", !.wake = 0]
  /\ UNCHANGED <<snapshot, snapshot_mutex_, reporter, dispatcher, console>>
  /\ UNCHANGED <<decVars, lidVars, trVars, orcVars, frmVars, relVars, lckVars>>

\* queryWithCapturedOutput: lock output_mutex_, point cout and cerr at oss
WorkerCapture ==
  /\ poller.thread = "running" /\ poller.pc = "capture"
  /\ OutputLockFree(output_mutex_)
  /\ output_mutex_' = "scheduler"
  /\ console' = [console EXCEPT !.rdbuf = "capture", !.oss = {}]
  /\ poller' = [poller EXCEPT !.pc = "query",
                              !.last = [key |-> poller.tasks[poller.i].snapshot_key,
                                        tick |-> poller.tick,
                                        due |-> poller.tasks[poller.i].next_due,
                                        period |-> poller.tasks[poller.i].period,
                                        began |-> now, ended |-> 0]]
  /\ UNCHANGED <<snapshot, snapshot_mutex_, reporter, dispatcher>>
  /\ UNCHANGED <<th, guardMtx, lastSend, socket_mutex_, socket_fd_, now, wire>>
  /\ UNCHANGED <<decVars, lidVars, orcVars, frmVars, relVars, lckVars>>

\* queryWithCapturedOutput: s = query(sensor, args), whose driver prints
WorkerQuery ==
  /\ poller.thread = "running" /\ poller.pc = "query"
  /\ console' = Write(console, "scheduler")
  /\ poller' = [poller EXCEPT !.pc = "restore"]
  /\ UNCHANGED <<snapshot, snapshot_mutex_, reporter, dispatcher>>
  /\ UNCHANGED <<decVars, lidVars, trVars, orcVars, frmVars, relVars, lckVars>>

\* queryWithCapturedOutput: restore the stream buffers, unlock, *captured = oss.str()
WorkerRestore ==
  /\ poller.thread = "running" /\ poller.pc = "restore"
  /\ console' = [console EXCEPT !.rdbuf = "terminal"]
  /\ output_mutex_' = "none"
  /\ poller' = [poller EXCEPT !.pc = "snap_lock", !.captured = console.oss,
                              !.polls = @ + 1]
  /\ UNCHANGED <<snapshot, snapshot_mutex_, reporter, dispatcher>>
  /\ UNCHANGED <<th, guardMtx, lastSend, socket_mutex_, socket_fd_, now, wire>>
  /\ UNCHANGED <<decVars, lidVars, orcVars, frmVars, relVars, lckVars>>

\* std::lock_guard<std::mutex> lock(snapshot_mutex_) of the worker
WorkerSnapLock ==
  /\ poller.thread = "running" /\ poller.pc = "snap_lock"
  /\ SnapshotLockFree(snapshot_mutex_)
  /\ snapshot_mutex_' = "scheduler"
  /\ poller' = [poller EXCEPT !.pc = "snap_output"]
  /\ UNCHANGED <<snapshot, reporter, dispatcher, console>>
  /\ UNCHANGED <<decVars, lidVars, trVars, orcVars, frmVars, relVars, lckVars>>

\* latest_query_output_[key] = captured
WorkerSnapOutput ==
  /\ poller.thread = "running" /\ poller.pc = "snap_output"
  /\ snapshot' = [snapshot EXCEPT
                    !.latest_query_output_[poller.tasks[poller.i].snapshot_key] =
                       [poll |-> poller.polls, text |-> poller.captured]]
  /\ poller' = [poller EXCEPT !.pc = "snap_status"]
  /\ UNCHANGED <<snapshot_mutex_, reporter, dispatcher, console>>
  /\ UNCHANGED <<decVars, lidVars, trVars, orcVars, frmVars, relVars, lckVars>>

\* latest_query_status_[key] = s
WorkerSnapStatus ==
  /\ poller.thread = "running" /\ poller.pc = "snap_status"
  /\ snapshot' = [snapshot EXCEPT
                    !.latest_query_status_[poller.tasks[poller.i].snapshot_key] = poller.polls]
  /\ poller' = [poller EXCEPT !.pc = "snap_time"]
  /\ UNCHANGED <<snapshot_mutex_, reporter, dispatcher, console>>
  /\ UNCHANGED <<decVars, lidVars, trVars, orcVars, frmVars, relVars, lckVars>>

\* latest_query_time_[key] = system_clock::now(); the lock_guard's scope ends
WorkerSnapTime ==
  /\ poller.thread = "running" /\ poller.pc = "snap_time"
  /\ snapshot' = [snapshot EXCEPT
                    !.latest_query_time_[poller.tasks[poller.i].snapshot_key] = poller.polls]
  /\ snapshot_mutex_' = "none"
  /\ poller' = [poller EXCEPT !.pc = "advance"]
  /\ UNCHANGED <<reporter, dispatcher, console>>
  /\ UNCHANGED <<decVars, lidVars, trVars, orcVars, frmVars, relVars, lckVars>>

\* tasks[i].next_due = now() + period; ran = true; break
WorkerAdvance ==
  /\ poller.thread = "running" /\ poller.pc = "advance"
  /\ poller' = [poller EXCEPT
                  !.tasks[poller.i].next_due = NextDue(poller.tasks[poller.i], now * 1000),
                  !.last.ended = now,
                  !.pc = "loop"]
  /\ UNCHANGED <<snapshot, snapshot_mutex_, reporter, dispatcher, console>>
  /\ UNCHANGED <<decVars, lidVars, trVars, orcVars, frmVars, relVars, lckVars>>

ReporterLoop_forever ==
  /\ reporter.thread = "running" /\ reporter.pc = "loop"
  /\ reporter' = [reporter EXCEPT !.pc = "copy_lock"]
  /\ UNCHANGED <<poller, snapshot, snapshot_mutex_, dispatcher, console>>
  /\ UNCHANGED <<decVars, lidVars, trVars, orcVars, frmVars, relVars, lckVars>>

\* printer loop head: while (snapshot_printer_running_) { printSnapshotTick(); ... }
ReporterLoop ==
  /\ reporter.thread = "running" /\ reporter.pc = "loop"
  /\ reporter' = IF reporter.snapshot_printer_running_
                   THEN [reporter EXCEPT !.pc = "copy_lock"]
                   ELSE [reporter EXCEPT !.thread = "exited", !.pc = "none"]
  /\ UNCHANGED <<poller, snapshot, snapshot_mutex_, dispatcher, console>>
  /\ UNCHANGED <<decVars, lidVars, trVars, orcVars, frmVars, relVars, lckVars>>

\* printSnapshotTick: std::lock_guard<std::mutex> lock(snapshot_mutex_)
ReporterSnapLock ==
  /\ reporter.thread = "running" /\ reporter.pc = "copy_lock"
  /\ SnapshotLockFree(snapshot_mutex_)
  /\ snapshot_mutex_' = "reporter"
  /\ reporter' = [reporter EXCEPT !.pc = "copy_outputs"]
  /\ UNCHANGED <<poller, snapshot, dispatcher, console>>
  /\ UNCHANGED <<decVars, lidVars, trVars, orcVars, frmVars, relVars, lckVars>>

\* outputs = latest_query_output_
ReporterCopyOutputs ==
  /\ reporter.thread = "running" /\ reporter.pc = "copy_outputs"
  /\ reporter' = [reporter EXCEPT !.outputs = snapshot.latest_query_output_,
                                  !.pc = "copy_statuses"]
  /\ UNCHANGED <<poller, snapshot, snapshot_mutex_, dispatcher, console>>
  /\ UNCHANGED <<decVars, lidVars, trVars, orcVars, frmVars, relVars, lckVars>>

\* statuses = latest_query_status_
ReporterCopyStatuses ==
  /\ reporter.thread = "running" /\ reporter.pc = "copy_statuses"
  /\ reporter' = [reporter EXCEPT !.statuses = snapshot.latest_query_status_,
                                  !.pc = "copy_times"]
  /\ UNCHANGED <<poller, snapshot, snapshot_mutex_, dispatcher, console>>
  /\ UNCHANGED <<decVars, lidVars, trVars, orcVars, frmVars, relVars, lckVars>>

\* times = latest_query_time_; the lock_guard's scope ends; if (outputs.empty()) return
ReporterCopyTimes ==
  /\ reporter.thread = "running" /\ reporter.pc = "copy_times"
  /\ snapshot_mutex_' = "none"
  /\ reporter' = IF \A k \in SnapshotKeys : reporter.outputs[k].poll = 0
                   THEN [reporter EXCEPT !.times = snapshot.latest_query_time_,
                                         !.pc = "sleep", !.wake = now + 1000]
                   ELSE [reporter EXCEPT !.times = snapshot.latest_query_time_,
                                         !.pc = "print_lock"]
  /\ UNCHANGED <<poller, snapshot, dispatcher, console>>
  /\ UNCHANGED <<decVars, lidVars, trVars, orcVars, frmVars, relVars, lckVars>>

\* printSnapshotTick: std::lock_guard<std::mutex> lock(output_mutex_)
ReporterPrintLock ==
  /\ reporter.thread = "running" /\ reporter.pc = "print_lock"
  /\ OutputLockFree(output_mutex_)
  /\ output_mutex_' = "reporter"
  /\ reporter' = [reporter EXCEPT !.pc = "print"]
  /\ UNCHANGED <<poller, snapshot, snapshot_mutex_, dispatcher, console>>
  /\ UNCHANGED <<th, guardMtx, lastSend, socket_mutex_, socket_fd_, now, wire>>
  /\ UNCHANGED <<decVars, lidVars, orcVars, frmVars, relVars, lckVars>>

\* printSnapshotTick: the entries, in sorted key order, written to std::cout
ReporterPrint ==
  /\ reporter.thread = "running" /\ reporter.pc = "print"
  /\ console' = Write(console, "reporter")
  /\ reporter' = [reporter EXCEPT !.pc = "printed"]
  /\ UNCHANGED <<poller, snapshot, snapshot_mutex_, dispatcher>>
  /\ UNCHANGED <<decVars, lidVars, trVars, orcVars, frmVars, relVars, lckVars>>

\* printSnapshotTick returns (unlock); std::this_thread::sleep_for(period) begins
ReporterPrinted ==
  /\ reporter.thread = "running" /\ reporter.pc = "printed"
  /\ output_mutex_' = "none"
  /\ reporter' = [reporter EXCEPT !.pc = "sleep", !.wake = now + 1000]
  /\ UNCHANGED <<poller, snapshot, snapshot_mutex_, dispatcher, console>>
  /\ UNCHANGED <<th, guardMtx, lastSend, socket_mutex_, socket_fd_, now, wire>>
  /\ UNCHANGED <<decVars, lidVars, orcVars, frmVars, relVars, lckVars>>

\* sleep_for(1000 ms) returns
ReporterWake ==
  /\ reporter.thread = "running" /\ reporter.pc = "sleep"
  /\ now >= reporter.wake
  /\ reporter' = [reporter EXCEPT !.pc = "loop", !.wake = 0]
  /\ UNCHANGED <<poller, snapshot, snapshot_mutex_, dispatcher, console>>
  /\ UNCHANGED <<decVars, lidVars, trVars, orcVars, frmVars, relVars, lckVars>>

\* Interface::dispatchCommand: std::lock_guard<std::mutex> lock(output_mutex_)
DispatchBegin ==
  /\ dispatcher = "idle"
  /\ OutputLockFree(output_mutex_)
  /\ output_mutex_' = "caller"
  /\ dispatcher' = "query"
  /\ UNCHANGED <<poller, snapshot, snapshot_mutex_, reporter, console>>
  /\ UNCHANGED <<th, guardMtx, lastSend, socket_mutex_, socket_fd_, now, wire>>
  /\ UNCHANGED <<decVars, lidVars, orcVars, frmVars, relVars, lckVars>>

\* Interface::dispatchCommand: query(sensor, args), whose driver prints
DispatchQuery ==
  /\ dispatcher = "query"
  /\ console' = Write(console, "caller")
  /\ dispatcher' = "return"
  /\ UNCHANGED <<poller, snapshot, snapshot_mutex_, reporter>>
  /\ UNCHANGED <<decVars, lidVars, trVars, orcVars, frmVars, relVars, lckVars>>

\* Interface::dispatchCommand returns: the lock_guard's scope ends
DispatchReturn ==
  /\ dispatcher = "return"
  /\ output_mutex_' = "none"
  /\ dispatcher' = "idle"
  /\ UNCHANGED <<poller, snapshot, snapshot_mutex_, reporter, console>>
  /\ UNCHANGED <<th, guardMtx, lastSend, socket_mutex_, socket_fd_, now, wire>>
  /\ UNCHANGED <<decVars, lidVars, orcVars, frmVars, relVars, lckVars>>

\* a sleep_for that ends after the last instant the clock of a run is followed
\* to: it returns, as every sleep_for does, with the clock left where it is
WorkerSleepPast ==
  /\ now = MaxSeconds * 1000
  /\ poller.thread = "running" /\ poller.pc = "sleep" /\ poller.wake > now
  /\ poller' = [poller EXCEPT !.pc = "loop", !.wake = 0]
  /\ UNCHANGED <<snapshot, snapshot_mutex_, reporter, dispatcher, console>>
  /\ UNCHANGED <<decVars, lidVars, trVars, orcVars, frmVars, relVars, lckVars>>

ReporterSleepPast ==
  /\ now = MaxSeconds * 1000
  /\ reporter.thread = "running" /\ reporter.pc = "sleep" /\ reporter.wake > now
  /\ reporter' = [reporter EXCEPT !.pc = "loop", !.wake = 0]
  /\ UNCHANGED <<poller, snapshot, snapshot_mutex_, dispatcher, console>>
  /\ UNCHANGED <<decVars, lidVars, trVars, orcVars, frmVars, relVars, lckVars>>

\* the clocks advance by a second
TickSecond ==
  /\ now < MaxSeconds * 1000
  /\ now' = now + 1000
  /\ UNCHANGED <<th, guardMtx, lastSend, socket_mutex_, socket_fd_, output_mutex_, wire>>
  /\ UNCHANGED <<decVars, lidVars, orcVars, schVars, frmVars, relVars, lckVars>>

-----------------------------------------------------------------------------
(***************************************************************************)
(* The polling loop over unbounded time.  steady_clock is not followed;    *)
(* every next_due is kept as its distance from the present instant (0 once *)
(* it has passed), which is all `tick < tasks[i].next_due` depends on.     *)
(***************************************************************************)

\* the longest poll of a run, in sleeps of the worker (20 ms)
MaxPollSleeps == 2
\* std::this_thread::sleep_for(std::chrono::milliseconds(20)), in microseconds
SleepUs == 20000

\* query_hz values of the configurations, in mHz (periods of 20 ms and 40 ms)
LoopHz == {50000, 25000}
LoopDrivers == {"battery", "solar", "hoist_hook"}

LoopConfigs ==
  {[hz |-> [d \in Range(SchedDrivers) |-> IF d \in LoopDrivers THEN h[d] ELSE 0],
    lidar_hz |-> 0,
    enable |-> [id \in Range(LidarInstances) |-> TRUE],
    drivers_ |-> Range(SchedDrivers) \cup {"spd_lidar"}] : h \in [LoopDrivers -> LoopHz]}

\* how long the poll of each task lasts in a run
PollDurations == {k * SleepUs : k \in 0..MaxPollSleeps}

NoLoop == [tasks |-> <<>>, dur |-> <<>>, pc |-> "none", i |-> 0]

\* next_due of every task once `us` microseconds have passed
Elapse(tasks, us) ==
  [k \in DOMAIN tasks |-> [tasks[k] EXCEPT !.next_due = Max(@ - us, 0)]]

\* loop head: tick = now(); the scan for the first task with !(tick < next_due)
LoopScan ==
  /\ worker_loop.pc = "loop"
  /\ LET i == FirstDue(worker_loop.tasks, 0, 1)
     IN worker_loop' = IF i = 0 THEN [worker_loop EXCEPT !.pc = "sleep", !.i = 0]
                                ELSE [worker_loop EXCEPT !.pc = "poll", !.i = i]
  /\ UNCHANGED <<decVars, lidVars, trVars, orcVars, schVars, frmVars, lckVars>>

\* queryWithCapturedOutput and the snapshot update take their time, then
\* tasks[i].next_due = now() + period; break
LoopPoll ==
  /\ worker_loop.pc = "poll"
  /\ LET i == worker_loop.i
         later == Elapse(worker_loop.tasks, worker_loop.dur[i])
     IN worker_loop' = [worker_loop EXCEPT
                          !.tasks = [later EXCEPT ![i].next_due = NextDue(later[i], 0)],
                          !.pc = "loop"]
  /\ UNCHANGED <<decVars, lidVars, trVars, orcVars, schVars, frmVars, lckVars>>

\* if (!ran) sleep_for(20 ms)
LoopSleep ==
  /\ worker_loop.pc = "sleep"
  /\ worker_loop' = [worker_loop EXCEPT !.tasks = Elapse(@, SleepUs), !.pc = "loop"]
  /\ UNCHANGED <<decVars, lidVars, trVars, orcVars, schVars, frmVars, lckVars>>

RelIdle == worker_loop = NoLoop

-----------------------------------------------------------------------------
(***************************************************************************)
(* Mutexes.  The lock operations of the polling worker, the snapshot       *)
(* printer and an interactive caller, each thread doing them in the order  *)
(* of its code: output_mutex_, GatewaySerialGuard::globalMutex(), the      *)
(* socket_mutex_ of every core, snapshot_mutex_.                           *)
(***************************************************************************)

LockThreads == {"scheduler", "reporter", "caller"}

OutputLock == "output_mutex_"
GuardLock == "globalMutex"
SnapshotLock == "snapshot_mutex_"
SocketLock(d) == "socket_mutex_:" \o d
Locks == {OutputLock, GuardLock, SnapshotLock} \cup {SocketLock(d) : d \in Drivers}

Lock(m) == [op |-> "lock", mutex |-> m]
Unlock(m) == [op |-> "unlock", mutex |-> m]

sendModbusPacket_socketfirst(d) ==
  <<Lock(SocketLock(d))>>
  \o (IF UsesGuard(d) THEN <<Lock(GuardLock), Unlock(GuardLock)>> ELSE <<>>)
  \o <<Unlock(SocketLock(d))>>

\* sendModbusPacket: GatewaySerialGuard serial_guard(...); lock_guard lock(socket_mutex_);
\* both released, in reverse order, when the function returns
sendModbusPacket(d) ==
  (IF UsesGuard(d) THEN <<Lock(GuardLock)>> ELSE <<>>)
  \o <<Lock(SocketLock(d)), Unlock(SocketLock(d))>>
  \o (IF UsesGuard(d) THEN <<Unlock(GuardLock)>> ELSE <<>>)

\* Interface::query on a Modbus driver: n exchanges, one after the other
RECURSIVE QueryLocks(_, _)
QueryLocks(d, n) == IF n = 0 THEN <<>> ELSE sendModbusPacket(d) \o QueryLocks(d, n - 1)

\* dispatchCommand and queryWithCapturedOutput: lock_guard lock(output_mutex_); query
LockedQuery(d, n) == <<Lock(OutputLock)>> \o QueryLocks(d, n) \o <<Unlock(OutputLock)>>

\* one pass of the worker's loop body: queryWithCapturedOutput, then the snapshot update
WorkerPollLocks(d, n) == LockedQuery(d, n) \o <<Lock(SnapshotLock), Unlock(SnapshotLock)>>

\* printSnapshotTick: the copy under snapshot_mutex_, then (unless there is nothing
\* to print) the printing under output_mutex_
PrinterLocks(empty) ==
  <<Lock(SnapshotLock), Unlock(SnapshotLock)>>
  \o (IF empty THEN <<>> ELSE <<Lock(OutputLock), Unlock(OutputLock)>>)

\* what a thread may set out to do
LockPrograms(t) ==
  CASE t = "scheduler" -> {WorkerPollLocks(d, n) : d \in Drivers, n \in 1..MaxReads}
    [] t = "reporter" -> {PrinterLocks(empty) : empty \in BOOLEAN}
    [] t = "caller" -> {LockedQuery(d, n) : d \in Drivers, n \in 1..MaxReads}
                        \cup {QueryLocks(d, n) : d \in Drivers, n \in 1..MaxReads}

NoMutexes ==
  [owner |-> [m \in Locks |-> "none"],
   todo |-> [t \in LockThreads |-> <<>>],
   held |-> [t \in LockThreads |-> <<>>]]

\* a thread enters its next loop pass or call
BeginLocks(t) ==
  /\ mutexes.todo[t] = <<>>
  /\ \E prog \in LockPrograms(t) : mutexes' = [mutexes EXCEPT !.todo[t] = prog]
  /\ UNCHANGED <<decVars, lidVars, trVars, orcVars, schVars, frmVars, relVars>>

\* std::lock_guard / std::unique_lock constructor: blocks until the mutex is free
LockStep(t) ==
  /\ mutexes.todo[t] # <<>>
  /\ Head(mutexes.todo[t]).op = "lock"
  /\ mutexes.owner[Head(mutexes.todo[t]).mutex] = "none"
  /\ mutexes' = [mutexes EXCEPT !.owner[Head(mutexes.todo[t]).mutex] = t,
                                !.held[t] = Append(@, Head(mutexes.todo[t]).mutex),
                                !.todo[t] = Tail(@)]
  /\ UNCHANGED <<decVars, lidVars, trVars, orcVars, schVars, frmVars, relVars>>

\* the destructor of the guard
UnlockStep(t) ==
  /\ mutexes.todo[t] # <<>>
  /\ Head(mutexes.todo[t]).op = "unlock"
  /\ mutexes' = [mutexes EXCEPT !.owner[Head(mutexes.todo[t]).mutex] = "none",
                                !.held[t] = SubSeq(@, 1, Len(@) - 1),
                                !.todo[t] = Tail(@)]
  /\ UNCHANGED <<decVars, lidVars, trVars, orcVars, schVars, frmVars, relVars>>

LckIdle == mutexes = NoMutexes

-----------------------------------------------------------------------------
(***************************************************************************)
(* Relay status decode (IoRelayCore::readRelayStatus after its exchange)   *)
(***************************************************************************)

\* bound of the bytes after the byte count
MaxRelayPayload == 2

RelayFcBytes == {1, 129}
RelayCountBytes == 0..2
RelayPayloadBytes == {0, 255}

\* responses the relay module may deliver
RelayResponses ==
  {SubSeq(Header7, 1, k) : k \in 5..7}
  \cup {Header7 \o <<f, c>> \o p :
          f \in RelayFcBytes, c \in RelayCountBytes,
          p \in SeqsUpTo(RelayPayloadBytes, MaxRelayPayload)}

\* response[k]; past the end of the vector the read yields whatever lies there
ByteAt(resp, k, stray) == IF k < Len(resp) THEN At(resp, k) ELSE stray

RelayRejected(reads) == [accepted |-> FALSE, reads |-> reads, on |-> {}]

\* the checks of readRelayStatus and the bytes it reads: byte 9 for one channel,
\* byte 9 + (i - 1) / 8 for each of the sixteen channels of the read-all
RelayStatusDecode(resp, relay_num, stray) ==
  IF Len(resp) < 10 THEN RelayRejected({})
  ELSE IF At(resp, 7) # 1 THEN RelayRejected({7})
  ELSE IF Len(resp) < 9 + At(resp, 8) THEN RelayRejected({7, 8})
  ELSE IF relay_num > 0
    THEN [accepted |-> TRUE, reads |-> {7, 8, 9},
          on |-> IF At(resp, 9) % 2 # 0 THEN {relay_num} ELSE {}]
  ELSE [accepted |-> TRUE,
        reads |-> {7, 8} \cup {9 + ((i - 1) \div 8) : i \in 1..16},
        on |-> {i \in 1..16 :
                  (ByteAt(resp, 9 + ((i - 1) \div 8), stray)
                     \div (2 ^ ((i - 1) % 8))) % 2 # 0}]

\* readRelayStatus(relay_num) on the response of its exchange
ReadRelayStatus ==
  /\ \E relay_num \in {0, 1, 16}, stray \in RelayPayloadBytes :
       decoded' = [driver |-> "io_relay", relay_num |-> relay_num,
                   result |-> RelayStatusDecode(response, relay_num, stray)]
  /\ UNCHANGED <<response, function_code, quantity>>
  /\ UNCHANGED <<lidVars, trVars, orcVars, schVars, frmVars, relVars, lckVars>>

-----------------------------------------------------------------------------
(***************************************************************************)
(* The bytes parseRegisterResponse reads                                   *)
(***************************************************************************)

\* the largest quantity genericRead lets through
MaxQuantity == 125

\* the indexes of `response` the three parseRegisterResponse bodies read: 7, then 8
\* (in the error branch only if size > 8), then 9 + 2i and 10 + 2i (readBe16 at
\* base = 9 + i * 2) for i < quantity once every check has passed
RegisterReads(d, resp, fc, qty) ==
  IF Len(resp) < 9 THEN {}
  ELSE IF ~FcMatches(At(resp, 7), fc)
    THEN {7} \cup (IF Len(resp) > 8 THEN {8} ELSE {})
  ELSE LET data_len == At(resp, 8) IN
    IF d # "hoist_hook" /\ ~LengthOkExact(Len(resp), data_len) THEN {7, 8}
    ELSE IF d = "hoist_hook" /\ ~LengthOkAtLeast(Len(resp), data_len) THEN {7, 8}
    ELSE IF ~EnoughData(data_len, qty) THEN {7, 8}
    ELSE {7, 8} \cup {9 + 2 * i : i \in 0..(qty - 1)}
                \cup {10 + 2 * i : i \in 0..(qty - 1)}

\* responses announcing about 250 data bytes: one byte short, exact, one byte padded
LongResponses ==
  {Header7 \o <<f, l>> \o [k \in 1..n |-> 0] :
     f \in {3, 4}, l \in {249, 250, 251}, n \in {249, 250, 251}}

\* parseRegisterResponse, followed by the bytes it touches
ParseReads ==
  /\ \E d \in DecodeFamilies :
       decoded' = [driver |-> d,
                   reads |-> RegisterReads(d, response, function_code, quantity)]
  /\ UNCHANGED <<response, function_code, quantity>>
  /\ UNCHANGED <<lidVars, trVars, orcVars, schVars, frmVars, relVars, lckVars>>

-----------------------------------------------------------------------------
(***************************************************************************)
(* The Status of a query: what Interface::query returns to a direct caller *)
(* and what the polling worker stores in the snapshot.                     *)
(***************************************************************************)

MaxPolls == 1      \* polls the worker makes

\* the args of the poll tasks startAutoQueryPolling builds for the Modbus drivers
PollArgs(d) ==
  CASE d = "battery" -> "basic"
    [] d = "solar" -> "status"
    [] d = "hoist_hook" -> "all"
    [] d = "io_relay" -> CmdRead

\* latest_query_output_ and latest_query_status_ of a key nothing was stored under
NoCapture == [printed |-> FALSE, ok |-> FALSE, transfers |-> 0]
NoStored ==
  [latest_query_output_ |-> [k \in Drivers |-> NoCapture],
   latest_query_status_ |-> [k \in Drivers |-> NoStatus],
   latest_query_time_ |-> [k \in Drivers |-> 0]]

\* argument vectors of the direct calls: no command, an unknown one, and each
\* sub-command with well-formed, with missing and with unparsable arguments
StatusArgs ==
  {<<>>, <<CmdBogus>>, <<CmdMap>>,
   <<CmdGet>>, <<CmdGet, Tok0>>, <<CmdGet, Tok0, Tok1x>>, <<CmdGet, Tok0, Tok126>>,
   <<CmdSet, Tok100>>, <<CmdSet, Tok100, Tok1>>, <<CmdSet, Tok100, Tok1, TokX>>,
   <<CmdOn>>, <<CmdOn, Tok1>>, <<CmdOff, Tok0>>, <<CmdRead>>, <<CmdRead, TokX>>}

\* Interface::dispatchCommand(sensor, args): output_mutex_, then query
DispatchCall ==
  /\ th["caller"].pc = "idle"
  /\ output_mutex_ = "none"
  /\ \E sensor \in SensorNames, args \in StatusArgs :
       \E r \in query(sensor, args) : th' = [th EXCEPT !["caller"] = r]
  /\ output_mutex_' = "caller"
  /\ UNCHANGED <<guardMtx, lastSend, socket_mutex_, socket_fd_, now, wire>>
  /\ UNCHANGED <<decVars, lidVars, orcVars, schVars, frmVars, relVars, lckVars>>

\* dispatchCommand returns query's Status: the lock_guard's scope ends, and the
\* caller goes on with the Status it got (the one direct call of a behaviour)
DispatchCallReturn ==
  /\ th["caller"].pc = "done"
  /\ output_mutex_ = "caller"
  /\ output_mutex_' = "none"
  /\ th' = [th EXCEPT !["caller"] = [IdleThread EXCEPT !.pc = "returned"]]
  /\ UNCHANGED <<guardMtx, lastSend, socket_mutex_, socket_fd_, now, wire>>
  /\ UNCHANGED <<decVars, lidVars, orcVars, schVars, frmVars, relVars, lckVars>>

\* the worker's queryWithCapturedOutput(tasks[i].sensor, tasks[i].args, &captured):
\* output_mutex_, then query
PollQuery ==
  /\ Resting("scheduler")
  /\ poller.polls < MaxPolls
  /\ output_mutex_ = "none"
  /\ \E d \in Drivers :
       th' = [th EXCEPT !["scheduler"] =
                IF d = "io_relay" THEN queryIoRelay(<<PollArgs(d)>>)
                ELSE StartInfo(d, PollArgs(d))]
  /\ output_mutex_' = "scheduler"
  /\ poller' = [poller EXCEPT !.polls = @ + 1]
  /\ UNCHANGED <<guardMtx, lastSend, socket_mutex_, socket_fd_, now, wire>>
  /\ UNCHANGED <<snapshot, snapshot_mutex_, reporter, dispatcher, console>>
  /\ UNCHANGED <<decVars, lidVars, orcVars, frmVars, relVars, lckVars>>

PollStore_exchange ==
  /\ th["scheduler"].pc = "done"
  /\ output_mutex_ = "scheduler"
  /\ LET r == th["scheduler"]
     IN snapshot' = [snapshot EXCEPT
                       !.latest_query_output_[r.sensor] =
                          [printed |-> TRUE, ok |-> r.ok, transfers |-> r.xfers],
                       !.latest_query_status_[r.sensor] =
                          [ok |-> r.ok, message |-> r.outcome],
                       !.latest_query_time_[r.sensor] = poller.polls]
  /\ output_mutex_' = "none"
  /\ th' = [th EXCEPT !["scheduler"] = IdleThread]
  /\ UNCHANGED <<guardMtx, lastSend, socket_mutex_, socket_fd_, now, wire>>
  /\ UNCHANGED <<poller, snapshot_mutex_, reporter, dispatcher, console>>
  /\ UNCHANGED <<decVars, lidVars, orcVars, frmVars, relVars, lckVars>>

\* query returned s to queryWithCapturedOutput, which unlocks and hands over the
\* captured text; under snapshot_mutex_: latest_query_output_[key] = captured,
\* latest_query_status_[key] = s, latest_query_time_[key] = system_clock::now(),
\* kept as the number of the poll.  The captured text is what the driver printed
\* about the last exchange: whether it succeeded and how many transfers it made.
PollStore ==
  /\ th["scheduler"].pc = "done"
  /\ output_mutex_ = "scheduler"
  /\ LET r == th["scheduler"]
     IN snapshot' = [snapshot EXCEPT
                       !.latest_query_output_[r.sensor] =
                          [printed |-> TRUE, ok |-> r.ok, transfers |-> r.xfers],
                       !.latest_query_status_[r.sensor] = r.ret,
                       !.latest_query_time_[r.sensor] = poller.polls]
  /\ output_mutex_' = "none"
  /\ th' = [th EXCEPT !["scheduler"] = IdleThread]
  /\ UNCHANGED <<guardMtx, lastSend, socket_mutex_, socket_fd_, now, wire>>
  /\ UNCHANGED <<poller, snapshot_mutex_, reporter, dispatcher, console>>
  /\ UNCHANGED <<decVars, lidVars, orcVars, frmVars, relVars, lckVars>>

-----------------------------------------------------------------------------
(***************************************************************************)
(* Request frames: createModbusPacket of the four Modbus cores and the     *)
(* transaction id each of them keeps                                       *)
(***************************************************************************)

\* transaction_id_(0x31A6) in every constructor
TransactionIdInit == 12710
\* (transaction_id_ + 1) & 0xFFFF
TidModulus == 65536
\* how many frames one run builds
MaxFrames == 3
\* attempts of sendModbusPacket on one frame
SendAttempts == 2

FrameFcs == {1, 3, 4, 5, 6}
\* ids a core can hold when a run begins: as constructed, and just before the wrap
TidStarts == {TransactionIdInit, TidModulus - 1}

NoPacket == [drv |-> "none", fc |-> 0, pkt |-> <<>>, sends |-> <<>>]
NoneBuilt == [count |-> 0, bumped |-> {}, kept |-> {}, last |-> <<>>]

\* the function codes each core builds a frame for
SupportedFcs(d) ==
  CASE d = "battery"    -> {3, 4, 6}
    [] d = "solar"      -> {3, 4, 5, 6}
    [] d = "hoist_hook" -> {3, 6}
    [] d = "io_relay"   -> {1, 5}

Increments_reads(d, fcode) == fcode \in {3, 4}

\* does createModbusPacket of core d step transaction_id_ for this function code
Increments(d, fcode) ==
  IF d \in {"battery", "solar"}
    THEN fcode \in {3, 4}            \* stepped before the function code is tested
    ELSE fcode \in SupportedFcs(d)   \* stepped once the function code is accepted

\* createModbusPacket: the id afterwards and the frame (id high, id low, function code)
createModbusPacket(d, tid, fcode) ==
  LET id == IF Increments(d, fcode) THEN (tid + 1) % TidModulus ELSE tid
  IN  [transaction_id_ |-> id,
       pkt |-> IF fcode \in SupportedFcs(d)
                 THEN <<id \div 256, id % 256, fcode>>
                 ELSE <<>>]

\* the transaction id a frame carries
PacketTid(pkt) == pkt[1] * 256 + pkt[2]

\* a caller builds a frame: readRegisters, writeRegister, controlRelay, readRelayStatus
CreatePacket ==
  /\ frame_log.count < MaxFrames
  /\ \E d \in Drivers, fcode \in FrameFcs :
       LET r == createModbusPacket(d, transaction_id_[d], fcode)
           moved == r.transaction_id_ # transaction_id_[d]
       IN  /\ transaction_id_' = [transaction_id_ EXCEPT ![d] = r.transaction_id_]
           /\ packet' = [drv |-> d, fc |-> fcode, pkt |-> r.pkt, sends |-> <<>>]
           /\ frame_log' =
                [count |-> frame_log.count + 1,
                 bumped |-> IF r.pkt # <<>> /\ moved
                              THEN frame_log.bumped \cup {<<d, fcode>>} ELSE frame_log.bumped,
                 kept |-> IF r.pkt # <<>> /\ ~moved
                            THEN frame_log.kept \cup {<<d, fcode>>} ELSE frame_log.kept,
                 last |-> <<transaction_id_[d], r.transaction_id_>>]
  /\ UNCHANGED <<decVars, lidVars, trVars, orcVars, schVars, relVars, lckVars>>

\* sendModbusPacket: one attempt puts the caller's frame on the wire; a failed
\* first attempt is followed by a second one on the same frame
SendPacket ==
  /\ packet.pkt # <<>>
  /\ Len(packet.sends) < SendAttempts
  /\ \A i \in 1..Len(packet.sends) : ~packet.sends[i].ok
  /\ \E ok \in BOOLEAN :
       packet' = [packet EXCEPT !.sends = Append(@, [pkt |-> packet.pkt, ok |-> ok])]
  /\ UNCHANGED <<transaction_id_, frame_log>>
  /\ UNCHANGED <<decVars, lidVars, trVars, orcVars, schVars, relVars, lckVars>>

FrmIdle ==
  /\ transaction_id_ = [d \in Drivers |-> TransactionIdInit]
  /\ packet = NoPacket
  /\ frame_log = NoneBuilt

-----------------------------------------------------------------------------
(***************************************************************************)
(* Specifications                                                          *)
(***************************************************************************)

\* no Interface call made: the orchestrator as constructed, builtin defaults on disk
OrcIdle == orch = FreshInterface(BuiltinDefaults)

\* the polling side as constructed, nothing configured to poll
NoPolling ==
  [hz |-> [d \in Range(SchedDrivers) |-> 0], lidar_hz |-> 0,
   enable |-> [id \in Range(LidarInstances) |-> TRUE],
   drivers_ |-> Range(SchedDrivers) \cup {"spd_lidar"}]

SchFresh ==
  /\ snapshot = EmptySnapshot
  /\ snapshot_mutex_ = "none"
  /\ reporter = IdleReporter
  /\ dispatcher = "idle"
  /\ console = IdleConsole

SchIdle == poller = IdlePoller(NoPolling) /\ SchFresh

DecIdle == response = <<>> /\ function_code = 3 /\ quantity = 1 /\ decoded = NoDecode
LidIdle ==
  /\ stream = <<>> /\ recv_buf_ = <<>> /\ frames = <<>>
  /\ lastPush = NoPush /\ delivered = <<>>
  /\ lastLine = NoLine /\ lastSent = NoSend
TrInit ==
  /\ th = [t \in Threads |-> IdleThread]
  /\ guardMtx = "none"
  /\ lastSend = [e \in Endpoints |-> -1]
  /\ socket_mutex_ = [d \in Drivers |-> "none"]
  /\ socket_fd_ = [d \in Drivers |-> -1]
  /\ output_mutex_ = "none"
  /\ now = 0
  /\ wire = [released |-> [e \in Endpoints |-> -1], lastEnd |-> [e \in Endpoints |-> -1]]

\* --- transport under concurrency: the polling worker and one caller thread ---
Init == DecIdle /\ LidIdle /\ TrInit /\ OrcIdle /\ SchIdle /\ FrmIdle /\ RelIdle /\ LckIdle

ExchangeStep(t) ==
  \/ EnterExchange(t)
  \/ Wake(t)
  \/ LockSocket(t)
  \/ Connect(t)
  \/ Xfer(t)
  \/ Return(t)

Next ==
  \/ PollBegin
  \/ DispatchRead
  \/ QueryRead
  \/ \E t \in Threads : ExchangeStep(t)
  \/ Tick

Spec == Init /\ [][Next]_vars

\* --- the write path, one caller thread ---
NextWrite ==
  \/ QuerySet
  \/ DispatchSet
  \/ HoistControl
  \/ ExchangeStep("caller")
  \/ Tick

SpecWrite == Init /\ [][NextWrite]_vars

\* --- command dispatch, one caller thread ---
NextDispatch ==
  \/ QueryCall
  \/ ExchangeStep("caller")
  \/ Tick

SpecDispatch == Init /\ [][NextDispatch]_vars

\* --- aggregated info commands, one caller thread ---
NextInfo ==
  \/ QueryInfo
  \/ ExchangeStep("caller")
  \/ TickGap

SpecInfo == Init /\ [][NextInfo]_vars

\* --- the Status of direct queries and of polls ---
InitStatus ==
  /\ DecIdle /\ LidIdle /\ TrInit /\ OrcIdle /\ FrmIdle /\ RelIdle /\ LckIdle
  /\ poller = IdlePoller(NoPolling)
  /\ snapshot = NoStored
  /\ snapshot_mutex_ = "none"
  /\ reporter = IdleReporter
  /\ dispatcher = "idle"
  /\ console = IdleConsole

NextStatus ==
  \/ DispatchCall
  \/ DispatchCallReturn
  \/ PollQuery
  \/ PollStore
  \/ \E t \in Threads : ExchangeStep(t)
  \/ Tick

SpecStatus == InitStatus /\ [][NextStatus]_vars

\* --- frame building: any core, any function code, any id a core can hold ---
InitFrame ==
  /\ DecIdle /\ LidIdle /\ TrInit /\ OrcIdle /\ SchIdle /\ RelIdle /\ LckIdle
  /\ transaction_id_ \in [Drivers -> TidStarts]
  /\ packet = NoPacket
  /\ frame_log = NoneBuilt

NextFrame == CreatePacket \/ SendPacket

SpecFrame == InitFrame /\ [][NextFrame]_vars

\* --- the register decoder on every modelled response ---
InitDecode ==
  /\ response \in Responses
  /\ function_code \in {3, 4}
  /\ quantity \in 1..MaxQty
  /\ decoded = NoDecode
  /\ LidIdle /\ TrInit /\ OrcIdle /\ SchIdle /\ FrmIdle /\ RelIdle /\ LckIdle

ParseRegisterResponse ==
  /\ \E d \in DecodeFamilies :
       decoded' = [driver |-> d,
                   result |-> parseRegisterResponse(d, response, function_code, quantity)]
  /\ UNCHANGED <<response, function_code, quantity>>
  /\ UNCHANGED <<lidVars, trVars, orcVars, schVars, frmVars, relVars, lckVars>>

NextDecode == ParseRegisterResponse

SpecDecode == InitDecode /\ [][NextDecode]_vars

\* --- the lidar codec fed from a device stream ---
InitLidar ==
  /\ stream \in Streams
  /\ recv_buf_ = <<>>
  /\ frames = <<>>
  /\ lastPush = NoPush
  /\ delivered = <<>>
  /\ lastLine = NoLine /\ lastSent = NoSend
  /\ DecIdle /\ TrInit /\ OrcIdle /\ SchIdle /\ FrmIdle /\ RelIdle /\ LckIdle

NextLidar == HandleRecvBytes

SpecLidar == InitLidar /\ [][NextLidar]_vars

\* --- the lidar codec fed from longer streams: frames and garbage interleaved ---
\* garbage pieces made of marker bytes, so that partial and broken markers occur;
\* the long ones fill the buffer to kFrameSize without holding a marker
LongGarbage == <<kCmdSingle, kCmdSingle, kCmdSingle, kCmdSingle, kCmdSingle, kCmdSingle>>
GarbagePieces ==
  {<<kHeader1>>, <<kCmdSingle>>, <<kHeader1, kHeader2>>, <<kHeader2, kCmdSingle>>,
   <<kHeader1, kHeader1>>, LongGarbage \o <<kHeader1>>, LongGarbage \o <<kHeader1, kHeader2>>}

\* device frames of the longer streams, with good and bad checksums
FramePieces ==
  {DeviceFrame(0, 18, lo, good) : lo \in {52, kCmdSingle}, good \in BOOLEAN}

Pieces == GarbagePieces \cup FramePieces \cup {<<>>}

\* byte streams of up to three pieces
PieceStreams == {a \o b \o c : a \in Pieces, b \in Pieces, c \in Pieces}

InitLidarStream ==
  /\ stream \in PieceStreams
  /\ recv_buf_ = <<>>
  /\ frames = <<>>
  /\ lastPush = NoPush
  /\ delivered = <<>>
  /\ lastLine = NoLine /\ lastSent = NoSend
  /\ DecIdle /\ TrInit /\ OrcIdle /\ SchIdle /\ FrmIdle /\ RelIdle /\ LckIdle

SpecLidarStream == InitLidarStream /\ [][NextLidar]_vars

\* --- the lidar command input ---
NextLidarSend == HandleInputLine

SpecLidarSend == Init /\ [][NextLidarSend]_vars

\* --- the orchestrator lifecycle: one API thread, the two background workers ---
InitLife ==
  /\ \E file \in ConfigFiles : orch = FreshInterface(file)
  /\ DecIdle /\ LidIdle /\ TrInit /\ SchIdle /\ FrmIdle /\ RelIdle /\ LckIdle

NextLife ==
  \/ InitCall
  \/ StartCall
  \/ StopCall
  \/ StopJoinScheduler
  \/ StopJoinPrinter
  \/ StopAdapters
  \/ SchedulerStep
  \/ PrinterStep

SpecLife == InitLife /\ [][NextLife]_vars

\* --- the polling worker on every polled configuration ---
InitSched ==
  /\ \E cfg \in PollConfigs : poller = IdlePoller(cfg)
  /\ SchFresh
  /\ DecIdle /\ LidIdle /\ TrInit /\ OrcIdle /\ FrmIdle /\ RelIdle /\ LckIdle

WorkerStep ==
  \/ WorkerScan
  \/ WorkerWake
  \/ WorkerCapture
  \/ WorkerQuery
  \/ WorkerRestore
  \/ WorkerSnapLock
  \/ WorkerSnapOutput
  \/ WorkerSnapStatus
  \/ WorkerSnapTime
  \/ WorkerAdvance

ReporterStep ==
  \/ ReporterLoop
  \/ ReporterSnapLock
  \/ ReporterCopyOutputs
  \/ ReporterCopyStatuses
  \/ ReporterCopyTimes
  \/ ReporterPrintLock
  \/ ReporterPrint
  \/ ReporterPrinted
  \/ ReporterWake

LifecycleStep ==
  \/ StartAutoQueryPolling
  \/ StopAutoQueryPolling
  \/ JoinWorker
  \/ JoinPrinter

\* the printer thread seen from the scheduler's side: it only matters that it
\* returns once stopSnapshotPrinter has cleared its flag
ReporterExit == ~reporter.snapshot_printer_running_ /\ ReporterLoop

NextSched ==
  \/ LifecycleStep
  \/ ReporterExit
  \/ WorkerStep
  \/ TickSecond

SpecSched == InitSched /\ [][NextSched]_vars

\* --- worker, reporter and an interactive caller on one configuration ---
ReportConfig ==
  [hz |-> [d \in Range(SchedDrivers) |->
             IF d \in {"battery", "io_relay"} THEN 50000 ELSE 0],
   lidar_hz |-> 0,
   enable |-> [id \in Range(LidarInstances) |-> TRUE],
   drivers_ |-> Range(SchedDrivers) \cup {"spd_lidar"}]

InitReport ==
  /\ poller = IdlePoller(ReportConfig)
  /\ SchFresh
  /\ DecIdle /\ LidIdle /\ TrInit /\ OrcIdle /\ FrmIdle /\ RelIdle /\ LckIdle

DispatchStep ==
  \/ DispatchBegin
  \/ DispatchQuery
  \/ DispatchReturn

NextReport ==
  \/ LifecycleStep
  \/ WorkerStep
  \/ ReporterStep
  \/ DispatchStep
  \/ TickSecond

SpecReport == InitReport /\ [][NextReport]_vars

\* --- the polling loop for ever: the worker runs and every poll returns ---
InitLoop ==
  /\ \E cfg \in LoopConfigs :
       LET tasks == BuildTasks(cfg, 0)
       IN \E dur \in [DOMAIN tasks -> PollDurations] :
            worker_loop = [tasks |-> tasks, dur |-> dur, pc |-> "loop", i |-> 0]
  /\ DecIdle /\ LidIdle /\ TrInit /\ OrcIdle /\ SchIdle /\ FrmIdle /\ LckIdle

NextLoop == LoopScan \/ LoopPoll \/ LoopSleep

SpecLoop == InitLoop /\ [][NextLoop]_vars /\ WF_vars(NextLoop)

\* --- the three threads and their mutexes ---
NextLocks ==
  \E t \in LockThreads : BeginLocks(t) \/ LockStep(t) \/ UnlockStep(t)

SpecLocks == Init /\ [][NextLocks]_vars

\* --- the relay status decoder on every response ---
InitRelay ==
  /\ response \in RelayResponses
  /\ function_code = 1 /\ quantity = 1
  /\ decoded = NoDecode
  /\ LidIdle /\ TrInit /\ OrcIdle /\ SchIdle /\ FrmIdle /\ RelIdle /\ LckIdle

NextRelay == ReadRelayStatus

SpecRelay == InitRelay /\ [][NextRelay]_vars

\* --- the register decoders on every response, up to the largest quantity ---
InitReads ==
  /\ response \in Responses \cup LongResponses
  /\ function_code \in {3, 4}
  /\ quantity \in (1..MaxQty) \cup {MaxQuantity}
  /\ decoded = NoDecode
  /\ LidIdle /\ TrInit /\ OrcIdle /\ SchIdle /\ FrmIdle /\ RelIdle /\ LckIdle

NextReads == ParseReads

SpecReads == InitReads /\ [][NextReads]_vars

\* --- stop() with every thread scheduled: a runnable thread runs, a mutex that
\* keeps being released is acquired, a join returns once its thread has, time
\* passes, and a query the interactive caller has started terminates ---
StopConfig ==
  [hz |-> [d \in Range(SchedDrivers) |-> IF d = "battery" THEN 50000 ELSE 0],
   lidar_hz |-> 0,
   enable |-> [id \in Range(LidarInstances) |-> TRUE],
   drivers_ |-> Range(SchedDrivers) \cup {"spd_lidar"}]

InitStop ==
  /\ poller = IdlePoller(StopConfig)
  /\ SchFresh
  /\ DecIdle /\ LidIdle /\ TrInit /\ OrcIdle /\ FrmIdle /\ RelIdle /\ LckIdle

NextStop ==
  \/ NextReport
  \/ WorkerSleepPast
  \/ ReporterSleepPast

StopFairness ==
  /\ SF_vars(WorkerStep)
  /\ SF_vars(ReporterStep)
  /\ WF_vars(JoinWorker)
  /\ WF_vars(JoinPrinter)
  /\ WF_vars(DispatchQuery \/ DispatchReturn)
  /\ WF_vars(TickSecond)
  /\ WF_vars(WorkerSleepPast)
  /\ WF_vars(ReporterSleepPast)

SpecStop == InitStop /\ [][NextStop]_vars /\ StopFairness

-----------------------------------------------------------------------------
(***************************************************************************)
(* Claims                                                                  *)
(***************************************************************************)

\* C1: at no instant are two protocol exchanges (connect/send/receive) in flight
\* at once, whatever the drivers and whichever threads (polling worker, callers
\* of Interface::query or dispatchCommand) run them.
C1_NoTwoExchangesInFlight ==
  \A t1, t2 \in Threads : t1 # t2 => ~(InFlight(t1) /\ InFlight(t2))

\* C2: a guard acquired for an endpoint key completes no earlier than 120 ms after
\* the previous guard for that key was released; the first acquisition for a key
\* does not sleep; the release happens only when sendModbusPacket returns, the
\* holder keeping the guard through the retry.
C2_HolderKeepsGuard ==
  \A t \in Threads : (InExchange(t) /\ th[t].drv \in {"battery", "solar", "io_relay"})
                        => guardMtx = t
C2_GuardStep ==
  \A t \in Threads :
    LET key == EndpointKey(th[t].drv)
        guarded == th[t].drv \in {"battery", "solar", "io_relay"}
    IN /\ (guarded /\ th[t].pc \in {"guard", "sleep"} /\ th'[t].pc = "locksock")
            => (wire.released[key] = -1 \/ now' >= wire.released[key] + 120)
       /\ (guarded /\ th[t].pc = "guard" /\ wire.released[key] = -1)
            => th'[t].pc # "sleep"
       /\ (wire'.released[key] # wire.released[key])
            => \E u \in Threads : th[u].pc = "ret" /\ th'[u].pc # "ret"
C2_MinGapBetweenGuards == []C2_HolderKeepsGuard /\ [][C2_GuardStep]_vars

\* C2 witness: a guard acquired for a key released before, its holder about to do I/O.
C2_Witness ==
  \E t \in Threads :
    /\ th[t].pc = "locksock" /\ guardMtx = t
    /\ wire.released[EndpointKey(th[t].drv)] # -1
    /\ now >= wire.released[EndpointKey(th[t].drv)] + 120

\* C3: every exchange of battery, solar, io_relay or hoist_hook starts no earlier
\* than 120 ms after the end of the previous exchange addressed to the same endpoint.
C3_EveryDriverKeepsGap ==
  [][\A t \in Threads :
       (th[t].pc = "locksock" /\ th'[t].pc = "connect1")
         => LET key == EndpointKey(th[t].drv)
            IN wire.lastEnd[key] = -1 \/ now' >= wire.lastEnd[key] + 120]_vars

\* C4: whenever sendModbusPacket has returned (or is about to), the driver's socket
\* is closed and socket_fd_ is -1, and every exchange starts on a closed socket.
C4_NoConnectionAcrossExchanges ==
  /\ \A d \in Drivers : socket_mutex_[d] = "none" => socket_fd_[d] = -1
  /\ \A t \in Threads : th[t].pc \in {"ret", "connect1", "connect2"}
                          => socket_fd_[th[t].drv] = -1

\* C4 witness: the return path taken when the reconnect of the retry fails.
C4_Witness ==
  \E t \in Threads : th[t].pc = "ret" /\ th[t].x1 = "fail" /\ th[t].c2 = "fail"
                       /\ socket_fd_[th[t].drv] = -1

\* C5 as claimed: a second send/receive is made iff the first send/receive failed,
\* never a third, and the exchange succeeds iff one of its attempts succeeded.
C5_RetryIffFirstFailed ==
  \A t \in Threads :
    /\ th[t].xfers <= 2
    /\ th[t].pc = "ret" =>
         /\ (th[t].x2 # "none") <=> (th[t].x1 = "fail")
         /\ th[t].ok <=> (th[t].x1 = "ok" \/ th[t].x2 = "ok")

\* C5 amended: a second send/receive is made iff the first send/receive failed and
\* the reconnect succeeded; never a third; the exchange succeeds iff one of its
\* send/receive attempts succeeded, and then holds that attempt's response.
C5_RetryOnceAmended ==
  \A t \in Threads :
    /\ th[t].xfers <= 2
    /\ th[t].pc = "ret" =>
         /\ (th[t].x2 # "none") <=> (th[t].x1 = "fail" /\ th[t].c2 = "ok")
         /\ (th[t].c2 # "none") <=> (th[t].x1 = "fail")
         /\ th[t].ok <=> (th[t].x1 = "ok" \/ th[t].x2 = "ok")
         /\ th[t].x1 = "ok" => th[t].resp = 1
         /\ th[t].x2 = "ok" => th[t].resp = 2

\* C5 witness: an exchange that succeeded on its retry.
C5_Witness ==
  \E t \in Threads : th[t].pc = "ret" /\ th[t].x1 = "fail" /\ th[t].x2 = "ok"
                       /\ th[t].ok /\ th[t].resp = 2

\* the risky ranges as the claim states them
ClaimRisky(d, addr) ==
  \/ d = "battery" /\ ((4001 <= addr /\ addr <= 4020) \/ (23136 <= addr /\ addr <= 23182))
  \/ d = "solar" /\ (addr = 13 \/ addr = 14 \/ (36864 <= addr /\ addr <= 36976))
  \/ d = "hoist_hook" /\ (0 <= addr /\ addr <= 99)

\* an exchange was started for the write the thread record describes
WriteWentOut(r) ==
  r.kind = "write" /\ (r.pc \notin {"idle", "done"} \/ r.outcome \in {"written", "abnormal", "io_error"})

\* C6: a write to a risky address goes out only if the operator typed YES; a
\* declined write ends at once: no guard, no socket operation, nothing recorded.
C6_RiskySent == \A t \in Threads :
  (WriteWentOut(th[t]) /\ ClaimRisky(th[t].drv, th[t].addr)) => th[t].input = "YES"
C6_DeclinedStep ==
  \A t \in Threads :
    (/\ th'[t] # th[t]
     /\ th[t].pc \in {"idle", "done"}
     /\ th'[t].kind = "write"
     /\ ClaimRisky(th'[t].drv, th'[t].addr)
     /\ th'[t].input # "YES")
    => /\ th'[t].pc = "done"
       /\ th'[t].outcome \in {"cancelled", "unsupported"}
       /\ UNCHANGED <<guardMtx, lastSend, socket_mutex_, socket_fd_, wire>>
C6_NoRiskyWriteUnconfirmed == []C6_RiskySent /\ [][C6_DeclinedStep]_vars

\* C6 witness: a declined write to a risky address has ended with nothing sent.
C6_Witness ==
  /\ th["caller"].outcome = "cancelled"
  /\ ClaimRisky(th["caller"].drv, th["caller"].addr)
  /\ th["caller"].input # "YES"
  /\ \A d \in Drivers : socket_fd_[d] = -1 /\ socket_mutex_[d] = "none"

\* C7: a declined risky write gives the caller of Interface::query a result that
\* differs from the one a successful write gives.
C7_CancelDistinctFromSuccess ==
  \A t \in Threads :
    (th[t].pc = "done" /\ th[t].outcome = "cancelled")
      => th[t].ret # Finished(th[t], "written").ret

\* C8 as claimed: in every family, a response of >= 9 bytes with byte 7 = function
\* code whose announced payload is present and covers 2*quantity bytes decodes to
\* `quantity` big-endian words.
ClaimWords(resp, qty) ==
  [i \in 1..qty |-> 256 * At(resp, 9 + 2 * (i - 1)) + At(resp, 10 + 2 * (i - 1))]
C8_DecodeEveryFamily ==
  (/\ decoded.driver # "none"
   /\ Len(response) >= 9
   /\ At(response, 7) = function_code
   /\ At(response, 8) >= 2 * quantity
   /\ Len(response) >= 9 + At(response, 8))
  => /\ decoded.result.ok
     /\ decoded.result.values = ClaimWords(response, quantity)

\* C8 amended: the same, where battery and solar also require the response to be
\* exactly 9 + byte 8 bytes long (hoist_hook accepts trailing bytes).
C8_DecodeAmended ==
  (/\ decoded.driver # "none"
   /\ Len(response) >= 9
   /\ At(response, 7) = function_code
   /\ At(response, 8) >= 2 * quantity
   /\ Len(response) >= 9 + At(response, 8)
   /\ decoded.driver \in {"battery", "solar"} => Len(response) = 9 + At(response, 8))
  => /\ decoded.result.ok
     /\ Len(decoded.result.values) = quantity
     /\ decoded.result.values = ClaimWords(response, quantity)

\* C8 witness: {..., 07, 03, 02, 00, 05} with quantity 1 decoded to [5].
C8_Witness ==
  /\ response = <<0, 1, 0, 0, 0, 5, 7, 3, 2, 0, 5>>
  /\ function_code = 3 /\ quantity = 1
  /\ decoded.driver = "battery"
  /\ decoded.result.ok /\ decoded.result.values = <<5>>

\* C9: decode fails and returns no values when the response is shorter than 9
\* bytes, when byte 7 is not the requested function code (the error carries
\* byte 8), or when byte 8 is smaller than 2*quantity.
C9_DecodeFailures ==
  decoded.driver # "none" =>
    /\ Len(response) < 9
         => (~decoded.result.ok /\ decoded.result.values = <<>>)
    /\ (Len(response) >= 9 /\ At(response, 7) # function_code)
         => (/\ ~decoded.result.ok /\ decoded.result.values = <<>>
             /\ decoded.result.err = "exception"
             /\ decoded.result.code = At(response, 8))
    /\ (Len(response) >= 9 /\ At(response, 7) = function_code
          /\ At(response, 8) < 2 * quantity)
         => (~decoded.result.ok /\ decoded.result.values = <<>>)

\* C9 witness: an exception response (byte 7 = 0x83) reported with its code.
C9_Witness ==
  /\ decoded.driver = "solar"
  /\ Len(response) >= 9 /\ At(response, 7) = 131 /\ At(response, 8) = 2
  /\ decoded.result.err = "exception" /\ decoded.result.code = 2

\* no marker 55 AA 88 anywhere inside p
NoMarkerIn(p) ==
  \A i \in 1..(Len(p) - 2) : ~(p[i] = 85 /\ p[i + 1] = 170 /\ p[i + 2] = 136)

\* C10: a delivery, into an empty receive buffer, of a marker-free prefix followed
\* by one complete 8-byte frame discards the prefix and emits exactly that frame,
\* with status = byte 3 and distance = 256 * byte 5 + byte 6.
C10_Resync ==
  (/\ lastPush.called
   /\ lastPush.before = <<>>
   /\ Len(lastPush.data) >= 8
   /\ LET n == Len(lastPush.data) - 8
      IN /\ NoMarkerIn(SubSeq(lastPush.data, 1, n))
         /\ SubSeq(lastPush.data, n + 1, n + 3) = <<85, 170, 136>>)
  => LET f == SubSeq(lastPush.data, Len(lastPush.data) - 7, Len(lastPush.data))
     IN /\ Len(lastPush.emitted) = 1
        /\ lastPush.emitted[1].raw = f
        /\ lastPush.emitted[1].status = At(f, 3)
        /\ lastPush.emitted[1].data = 256 * At(f, 5) + At(f, 6)
        /\ recv_buf_ = <<>>

\* C10 witness: DE AD 55 AA 88 00 FF 12 34 chk pushed at once gave distance 0x1234.
C10_Witness ==
  /\ lastPush.called
  /\ lastPush.before = <<>>
  /\ Len(lastPush.data) = 10
  /\ SubSeq(lastPush.data, 1, 9) = <<222, 173, 85, 170, 136, 0, 255, 18, 52>>
  /\ Len(frames) = 1 /\ frames[1].data = 4660 /\ frames[1].status = 0

\* C11: however the bytes delivered so far were split into handleRecvBytes calls,
\* the frames emitted so far are the frames one call with all those bytes emits:
\* none lost, duplicated or reordered.
C11_FragmentationIndependent ==
  frames = emitFrameIfComplete(delivered, <<>>).out

\* C11 witness: a marker split across two deliveries, the first of which filled the
\* buffer to eight marker-free bytes, and a frame emitted by the second.
C11_Witness ==
  /\ lastPush.called
  /\ lastPush.before = <<85, 170>>
  /\ Len(lastPush.data) >= 6 /\ lastPush.data[1] = 136
  /\ Len(lastPush.emitted) = 1
  /\ Len(delivered) > Len(lastPush.data) + 2

\* the concatenation of a sequence of byte sequences
RECURSIVE Flatten(_)
Flatten(ss) == IF ss = <<>> THEN <<>> ELSE Head(ss) \o Flatten(Tail(ss))

\* data is k >= 1 marker-led 8-byte frames back to back
BackToBack(data) ==
  /\ Len(data) >= 8 /\ Len(data) % 8 = 0
  /\ \A j \in 0..((Len(data) \div 8) - 1) :
       SubSeq(data, 8 * j + 1, 8 * j + 3) = <<85, 170, 136>>

\* C12: one delivery, into an empty receive buffer, of k >= 1 marker-led 8-byte
\* frames back to back emits exactly k frames in stream order, frame j being
\* bytes 8j..8j+7 of the delivery, and leaves nothing buffered.
C12_Concatenation ==
  (lastPush.called /\ lastPush.before = <<>> /\ BackToBack(lastPush.data))
  => /\ Len(lastPush.emitted) = Len(lastPush.data) \div 8
     /\ \A j \in 1..Len(lastPush.emitted) :
          lastPush.emitted[j].raw = SubSeq(lastPush.data, 8 * (j - 1) + 1, 8 * j)
     /\ recv_buf_ = <<>>

\* C12 witness: three different frames in one delivery, three frames out.
C12_Witness ==
  /\ lastPush.called /\ lastPush.before = <<>>
  /\ Len(lastPush.data) = 24 /\ BackToBack(lastPush.data)
  /\ Len(frames) = 3
  /\ frames[1].raw # frames[2].raw /\ frames[2].raw # frames[3].raw

\* C13: a complete marker-led 8-byte frame is emitted whatever its checksum byte,
\* and an emitted frame has checksum_ok exactly when the sum of its bytes 0..6
\* mod 256 equals its byte 7.
C13_ChecksumAdvisory ==
  /\ \A i \in 1..Len(frames) :
       LET raw == frames[i].raw
       IN frames[i].checksum_ok <=>
            ((raw[1] + raw[2] + raw[3] + raw[4] + raw[5] + raw[6] + raw[7]) % 256 = raw[8])
  /\ (lastPush.called /\ lastPush.before = <<>> /\ Len(lastPush.data) = 8
        /\ SubSeq(lastPush.data, 1, 3) = <<85, 170, 136>>)
       => (Len(lastPush.emitted) = 1 /\ lastPush.emitted[1].raw = lastPush.data)

\* C13 witness: a frame with a corrupted last byte was emitted with checksum_ok false.
C13_Witness ==
  /\ lastPush.called /\ lastPush.before = <<>> /\ Len(lastPush.data) = 8
  /\ Len(frames) = 1 /\ ~frames[1].checksum_ok /\ frames[1].valid_header
  /\ frames[1].raw = lastPush.data

\* C14: "single" is sent as 55 AA 88 FF FF FF FF 84, and a hex command accepted with
\* 7 bytes is sent as those 7 bytes plus (sum of bytes 2..6) mod 256.
C14_OutboundChecksum ==
  /\ lastLine = SingleLine
       => (lastSent.sent /\ lastSent.bytes = <<85, 170, 136, 255, 255, 255, 255, 132>>)
  /\ LET p == parseHexLine(lastLine, <<>>)
     IN (lastLine # SingleLine /\ p.ok /\ Len(p.out) = 7)
          => /\ lastSent.sent
             /\ Len(lastSent.bytes) = 8
             /\ SubSeq(lastSent.bytes, 1, 7) = p.out
             /\ lastSent.bytes[8] =
                  (p.out[3] + p.out[4] + p.out[5] + p.out[6] + p.out[7]) % 256

\* C14 witness: "55 AA 88 0x12 FF FF FF" went out with checksum 0x97.
C14_Witness ==
  /\ lastLine = <<<<"5", "5">>, <<"A", "A">>, <<"8", "8">>, <<"0", "x", "1", "2">>,
                  <<"F", "F">>, <<"F", "F">>, <<"F", "F">>>>
  /\ lastSent.sent
  /\ lastSent.bytes = <<85, 170, 136, 18, 255, 255, 255, 151>>

\* a token of one or two hex digits, and the byte it denotes
PlainByte(tok) == Len(tok) \in {1, 2} /\ \A i \in 1..Len(tok) : IsHexDigit(tok[i])
PlainValue(tok) ==
  IF Len(tok) = 1 THEN HexValue[tok[1]] ELSE 16 * HexValue[tok[1]] + HexValue[tok[2]]

\* C15: a hex command is sent exactly when it parses to 7 bytes (checksum appended)
\* or to 8 bytes (sent verbatim); any other length, or a line that does not parse,
\* gives nothing to on_send.
C15_OutboundLengthRule ==
  (lastLine # NoLine /\ lastLine # SingleLine) =>
    LET p == parseHexLine(lastLine, <<>>)
    IN /\ lastSent.sent <=> (p.ok /\ Len(p.out) \in {7, 8})
       /\ (p.ok /\ Len(p.out) = 8) => lastSent.bytes = p.out
       /\ (p.ok /\ Len(p.out) = 7) => SubSeq(lastSent.bytes, 1, 7) = p.out
       /\ ~lastSent.sent => lastSent.bytes = <<>>
       /\ (\A i \in 1..Len(lastLine) : PlainByte(lastLine[i])) =>
            /\ lastSent.sent <=> Len(lastLine) \in {7, 8}
            /\ Len(lastLine) = 8 =>
                 lastSent.bytes = [i \in 1..8 |-> PlainValue(lastLine[i])]
       /\ (\E i \in 1..Len(lastLine) : lastLine[i] = <<"G">>) => ~lastSent.sent

\* C15 witness: a command of nine bytes was refused, nothing sent.
C15_Witness ==
  /\ Len(lastLine) = 9
  /\ \A i \in 1..9 : PlainByte(lastLine[i])
  /\ ~lastSent.sent /\ lastSent.bytes = <<>> /\ lastSent.log = "need7or8"

\* the step is a return of Interface::<op>
ReturnsFrom(op) == orch'.last.op = op /\ orch'.last # orch.last /\ orch'.api = "idle"

\* the call changed nothing but the returned Status
OnlyReturned == [orch' EXCEPT !.last = orch.last] = orch

\* C16: init() on an initialized orchestrator returns success, loads no
\* configuration, builds no driver and leaves the registry as it was.
C16_InitIdempotent ==
  /\ [](orch.last.message = "already initialized"
          => (orch.last.ok /\ orch.last.did = NoEffects /\ orch.initialized_))
  /\ [][(orch.initialized_ /\ ReturnsFrom("init"))
          => /\ orch'.last.ok
             /\ ~orch'.last.did.loaded /\ ~orch'.last.did.built
             /\ orch'.drivers_ = orch.drivers_ /\ orch'.cores = orch.cores
             /\ orch'.defaults = orch.defaults
             /\ OnlyReturned]_vars

\* C16 witness: a second init() returned on an orchestrator with a built registry.
C16_Witness ==
  /\ orch.last.op = "init" /\ orch.last.message = "already initialized"
  /\ orch.initialized_ /\ orch.drivers_ = LifeDrivers /\ orch.config_loaded_

\* C17: start() on an orchestrator that is not initialized fails with "not
\* initialized" and changes nothing: no adapter started, no worker launched,
\* started_ still false.
C17_StartNeedsInit ==
  /\ [](~orch.initialized_
          => (~orch.started_ /\ orch.sched = "none" /\ orch.printer = "none"
                /\ ~orch.encoderRunning))
  /\ [][(~orch.initialized_ /\ ReturnsFrom("start"))
          => /\ ~orch'.last.ok
             /\ orch'.last.message = "sdk not initialized"
             /\ orch'.last.did = NoEffects
             /\ ~orch'.started_
             /\ OnlyReturned]_vars

\* C17 witness: start() refused on an orchestrator that was never initialized.
C17_Witness ==
  /\ orch.last.op = "start" /\ ~orch.last.ok /\ orch.last.message = "sdk not initialized"
  /\ ~orch.initialized_ /\ ~orch.started_ /\ orch.sched = "none" /\ orch.printer = "none"

\* start() on a started orchestrator: success, no adapter start(), no worker launched
StartAgainStep ==
  (orch.initialized_ /\ orch.started_ /\ ReturnsFrom("start"))
    => /\ orch'.last.ok
       /\ orch'.last.did.started = {} /\ orch'.last.did.launched = {}
       /\ OnlyReturned

\* C18 as claimed: after a successful init() start() returns success, and start()
\* on a started orchestrator returns success without starting adapters or workers.
C18_StartSucceeds ==
  /\ []((orch.initialized_ /\ orch.last.op = "start") => orch.last.ok)
  /\ [][StartAgainStep]_vars

\* C18 amended: after a successful init() start() returns success provided every
\* adapter's start() succeeds (only the encoder's can fail, which makes start()
\* fail with started_ false and no worker launched); start() on a started
\* orchestrator returns success without starting adapters or workers.
C18_StartAmended ==
  /\ [][(orch.initialized_ /\ ~orch.started_ /\ ReturnsFrom("start"))
          => \/ /\ orch'.last.ok /\ orch'.started_
                /\ orch'.last.did.started = orch.drivers_
                /\ "reporter" \in orch'.last.did.launched
             \/ /\ ~orch'.last.ok
                /\ orch'.last.message = "start failed on multi_turn_encoder: encoder connect failed"
                /\ "multi_turn_encoder" \in orch.drivers_
                /\ "multi_turn_encoder" \in orch'.last.did.started
                /\ ~orch'.started_ /\ orch'.last.did.launched = {}
                /\ OnlyReturned]_vars
  /\ [][("multi_turn_encoder" \notin orch.drivers_ /\ orch.initialized_ /\ ReturnsFrom("start"))
          => orch'.last.ok]_vars
  /\ [][StartAgainStep]_vars

\* C18 witness: start() returned "already started" with both workers alive.
C18_Witness ==
  /\ orch.last.op = "start" /\ orch.last.message = "all drivers already started"
  /\ orch.last.ok /\ orch.started_
  /\ orch.sched # "none" /\ orch.printer # "none"

\* C19: stop() stops the adapters only after both workers are joined; once it has
\* returned, no poll, no snapshot update and no reporter output happens until the
\* next start(); stop() on an initialized, stopped orchestrator returns success and
\* touches no adapter.
C19_StopJoinsWorkers ==
  /\ []((~orch.started_ /\ orch.api = "idle")
          => (orch.sched = "none" /\ orch.printer = "none"))
  /\ [][(~orch.started_ /\ orch.api = "idle")
          => (/\ orch'.updates = orch.updates
              /\ orch'.sched \notin {"poll", "update"}
              /\ orch'.printer # "print")]_vars
  /\ [][(orch.api = "stop_adapters" /\ orch'.api = "idle")
          => (orch.sched = "none" /\ orch.printer = "none"
                /\ orch'.last.did.stopped = orch.drivers_)]_vars
  /\ [][(orch'.last.did.stopped # {} /\ orch'.last # orch.last)
          => (orch.sched = "none" /\ orch.printer = "none")]_vars
  /\ [][(orch.initialized_ /\ ~orch.started_ /\ ReturnsFrom("stop"))
          => (orch'.last.ok /\ orch'.last.did = NoEffects /\ OnlyReturned)]_vars

\* C19 witness: stop() has returned after the scheduler had polled; both workers gone.
C19_Witness ==
  /\ orch.last.op = "stop" /\ orch.last.message = "all drivers stopped"
  /\ orch.updates > 0 /\ orch.tasks # {}
  /\ ~orch.started_ /\ orch.api = "idle"
  /\ orch.sched = "none" /\ orch.printer = "none"

\* C20: a PollTask exists only for a configured rate > 0; its period is that of the
\* rate clamped to [0.1 Hz, 50 Hz], so it lies in [0.02 s, 10 s]; 0.02 Hz gives 10 s
\* and 1000 Hz gives 0.02 s.
C20_PollRateClamped ==
  /\ \A t \in orch.tasks :
       /\ t.hz > 0
       /\ t.hz = orch.defaults.hz[t.sensor]
       /\ t.period = 1000000000 \div
            (IF t.hz < 100 THEN 100 ELSE IF t.hz > 50000 THEN 50000 ELSE t.hz)
       /\ 20000 <= t.period /\ t.period <= 10000000
       /\ t.hz = 20 => t.period = 10000000
       /\ t.hz = 1000000 => t.period = 20000
  /\ orch.started_ =>
       \A d \in LifeDrivers :
         (orch.defaults.hz[d] > 0 /\ d \in orch.drivers_)
           <=> (\E t \in orch.tasks : t.sensor = d)

\* C20 witness: tasks configured with 0.02 Hz and with 1000 Hz are scheduled.
C20_Witness ==
  /\ orch.started_
  /\ \E t \in orch.tasks : t.hz = 20 /\ t.period = 10000000
  /\ \E t \in orch.tasks : t.hz = 1000000 /\ t.period = 20000

\* C21: a background poll's captured driver query, an interactive dispatchCommand's
\* query and one reporter print pass never overlap: each runs with output_mutex_
\* held by its own thread from start to end, std::cout points at the capture
\* buffer only inside the poll, and neither the capture buffer nor any snapshot
\* text ever holds text written by the reporter or by an interactive dispatch.
PollOutput == poller.pc \in {"query", "restore"}
DispatchOutput == dispatcher \in {"query", "return"}
ReporterOutput == reporter.pc \in {"print", "printed"}

C21_OutputLock ==
  /\ ~(PollOutput /\ DispatchOutput)
  /\ ~(PollOutput /\ ReporterOutput)
  /\ ~(DispatchOutput /\ ReporterOutput)
  /\ PollOutput => output_mutex_ = "scheduler"
  /\ DispatchOutput => output_mutex_ = "caller"
  /\ ReporterOutput => output_mutex_ = "reporter"
  /\ console.rdbuf = "capture" => PollOutput
  /\ console.oss \subseteq {"scheduler"}
  /\ poller.captured \subseteq {"scheduler"}
  /\ \A k \in SnapshotKeys :
       /\ snapshot.latest_query_output_[k].text \subseteq {"scheduler"}
       /\ reporter.outputs[k].text \subseteq {"scheduler"}

\* the reporter is printing a captured poll while the worker waits for the output
\* lock with its next poll and an interactive dispatch has just finished
C21_Witness ==
  /\ reporter.pc = "print"
  /\ poller.pc = "capture"
  /\ dispatcher = "idle"
  /\ \E k \in SnapshotKeys : reporter.outputs[k].text = {"scheduler"}

\* C22: for every snapshot key, the text, status and timestamp the reporter holds
\* once its copy of the three maps is complete come from one and the same poll,
\* whose three stores were all done: the reporter never observes an entry between
\* two of the worker's stores.
CopyComplete == reporter.pc \notin {"copy_statuses", "copy_times"}

C22_SnapshotAtomic ==
  CopyComplete =>
    \A k \in SnapshotKeys :
      /\ reporter.outputs[k].poll = reporter.statuses[k]
      /\ reporter.statuses[k] = reporter.times[k]
      /\ reporter.outputs[k].poll <= poller.polls

\* the reporter prints an entry of a key while the worker is between two stores
\* of a later poll of that same key
C22_Witness ==
  /\ reporter.pc = "print"
  /\ poller.pc = "snap_status"
  /\ LET k == poller.tasks[poller.i].snapshot_key
     IN /\ reporter.outputs[k].poll >= 1
        /\ reporter.outputs[k].poll < snapshot.latest_query_output_[k].poll

-----------------------------------------------------------------------------
(***************************************************************************)
(* Command dispatch                                                        *)
(***************************************************************************)

\* the call the caller thread is in, or has just returned from
Call == th["caller"]
InCall == Call.pc # "idle" /\ Call.sensor # "none"

\* an unknown sensor name, a missing sub-command or an unrecognised one
DispatchError(sensor, args) ==
  \/ sensor \notin Drivers
  \/ args = <<>>
  \/ args # <<>> /\ args[1] \notin SubCommands(sensor)

\* no rate limiter and no socket operation has been performed for the call
NoIoDone(r) ==
  /\ r.pc = "done"
  /\ r.xfers = 0
  /\ r.x1 = "none"
  /\ ~r.att.made

\* C23: a query whose sensor is unknown, or whose sub-command is missing or not
\* one of the driver's, returns Status{ok: false}, and the call never leaves the
\* dispatcher: it takes no rate limiter, locks no socket and exchanges nothing.
C23_DispatchErrorsNoIo ==
  InCall /\ DispatchError(Call.sensor, Call.args)
    => NoIoDone(Call) /\ Call.ret.ok = FALSE

C23_Witness ==
  /\ InCall
  /\ Call.sensor = "io_relay"
  /\ Call.args = <<CmdBogus>>
  /\ Call.outcome = "unknown_command"
  /\ Call.ret.ok = FALSE
  /\ now > 0

\* the numeric value a command-line token denotes, -1 when it denotes none
Denotes(tok) == IF parseInt(tok).ok THEN parseInt(tok).value ELSE -1
Numeric(tok) == parseInt(tok).ok

\* a recognised command whose arguments are malformed: a non-numeric address,
\* quantity, value, function code or channel; a read quantity outside 1..125; a
\* relay channel outside 1..16; a function code the driver does not support
MalformedArgs(sensor, args) ==
  /\ ~DispatchError(sensor, args)
  /\ \/ /\ args[1] \in {CmdGet, CmdSet}
        /\ sensor # "io_relay"
        /\ \E k \in 2..Len(args) : ~Numeric(args[k])
     \/ /\ args[1] = CmdGet
        /\ sensor # "io_relay"
        /\ Len(args) >= 3
        /\ Numeric(args[3])
        /\ Denotes(args[3]) \notin 1..125
     \/ /\ args[1] = CmdGet
        /\ sensor # "io_relay"
        /\ Len(args) >= 4
        /\ Numeric(args[4])
        /\ ~ReadFcAccepted(sensor, Denotes(args[4]))
     \/ /\ sensor = "io_relay"
        /\ Len(args) >= 2
        /\ (~Numeric(args[2]) \/ Denotes(args[2]) \notin 1..16)

\* C24 (as claimed): a recognised command with malformed arguments is rejected,
\* i.e. returns a failure Status, before any rate limiter or socket operation.
C24_FormatErrorBeforeIo ==
  InCall /\ MalformedArgs(Call.sensor, Call.args)
    => NoIoDone(Call) /\ Call.ret.ok = FALSE


-----------------------------------------------------------------------------
(***************************************************************************)
(* Retry policy of one exchange                                            *)
(***************************************************************************)

\* the first attempt of the exchange failed: its connection could not be set up
\* (no send/receive made), or its send/receive failed
FirstAttemptFailed(r) == r.xfers = 0 \/ r.x1 = "fail"

\* a second attempt was started: the reconnect was tried
SecondAttemptStarted(r) == r.c2 # "none"

\* C26 (as claimed): whenever the first attempt of an exchange fails, at socket
\* creation, connect, send or receive, a second attempt is started.
C26_AnyFailureRetried ==
  \A t \in Threads :
    th[t].pc = "ret" /\ FirstAttemptFailed(th[t]) => SecondAttemptStarted(th[t])

\* C26 amended: a failed send or receive of the first attempt is retried exactly
\* once, on a connection opened anew after the failed one was closed; a failed
\* socket creation or connect of the first attempt ends the exchange as a failure
\* without any retry, and so does a failed reconnect.
C26_RetryAmended ==
  \A t \in Threads :
    /\ th[t].xfers <= 2
    /\ th[t].pc = "connect2" =>
         /\ th[t].x1 = "fail"
         /\ th[t].xfers = 1
         /\ socket_fd_[th[t].drv] = -1
    /\ th[t].pc = "xfer2" => th[t].c2 = "ok" /\ socket_fd_[th[t].drv] >= 0
    /\ th[t].pc = "ret" =>
         /\ th[t].x1 = "fail" => SecondAttemptStarted(th[t])
         /\ th[t].xfers = 0 => ~SecondAttemptStarted(th[t]) /\ ~th[t].ok
         /\ th[t].c2 = "fail" => th[t].xfers = 1 /\ ~th[t].ok

\* C26 witness: the first connect failed and the exchange returns with no retry.
C26_Witness ==
  /\ th["caller"].pc = "ret"
  /\ th["caller"].xfers = 0
  /\ th["caller"].c2 = "none"
  /\ ~th["caller"].ok
  /\ th["caller"].kind = "get"

\* C27 (as claimed): an attempt whose send returned fewer than the 12 bytes of
\* the frame is a failed attempt and does not go on to receive.
C27_PartialSendFails ==
  \A t \in Threads :
    th[t].att.made /\ th[t].att.sent < PacketSize /\ th[t].pc \in {"ret", "connect2"}
      => ~th[t].att.received /\ ~th[t].ok

\* C28: a response that was received is never grounds for another exchange. The
\* reconnect and second send/receive happen only after an attempt that delivered no
\* bytes, and once sendModbusPacket has returned to a register read the read ends
\* with that one exchange, whether the response decodes or not.
ReceivedBytes(a) == a.made /\ a.received /\ a.n > 0
C28_NoRetryOfReceived ==
  \A t \in Threads : th[t].pc \in {"connect2", "xfer2"} => ~ReceivedBytes(th[t].att)
C28_ReadEndsAfterExchange ==
  (Call.pc = "ret" /\ Call.kind = "get" /\ Call' # Call)
    => /\ Call'.pc = "done"
       /\ Call'.outcome \in {"decoded", "protocol_error", "io_error"}
       /\ Call'.outcome = "io_error" <=> ~Call.ok
       /\ Call'.xfers = Call.xfers
C28_ProtocolErrorNotRetried ==
  []C28_NoRetryOfReceived /\ [][C28_ReadEndsAfterExchange]_vars

\* C28 witness: a register read that ended on a malformed response after a single
\* send/receive.
C28_Witness ==
  /\ Call.pc = "done"
  /\ Call.kind = "get"
  /\ Call.outcome = "protocol_error"
  /\ Call.xfers = 1
  /\ ReceivedBytes(Call.att)


-----------------------------------------------------------------------------
(***************************************************************************)
(* start() and a failing adapter                                           *)
(***************************************************************************)

\* C25: when an adapter's start() fails, start() returns a failure whose message
\* carries that driver's name and the adapter's message; no scheduler and no
\* reporter is launched and the orchestrator remains not started.
C25_StartAbortsOnFailure ==
  (orch.last.op = "start" /\ orch.last.did.failed # {})
    => /\ ~orch.last.ok
       /\ \E d \in orch.last.did.failed :
            orch.last.message = "start failed on " \o d \o ": encoder connect failed"
       /\ orch.last.did.launched = {}
       /\ ~orch.started_
       /\ ~orch.auto_query_running_ /\ ~orch.snapshot_printer_running_
       /\ orch.sched = "none" /\ orch.printer = "none"

\* C25 witness: start() failed on the encoder after another adapter had started.
C25_Witness ==
  /\ orch.last.op = "start"
  /\ orch.last.did.failed = {"multi_turn_encoder"}
  /\ "battery" \in orch.last.did.started
  /\ ~orch.last.ok


-----------------------------------------------------------------------------
(***************************************************************************)
(* The polling scheduler                                                   *)
(***************************************************************************)

\* the worker finishes the poll of task poller.i and goes back to the loop head
AdvanceStep == poller.pc = "advance" /\ poller'.pc = "loop"

TaskNow == poller.tasks[poller.i]
TaskNext == poller'.tasks[poller.i]

\* C29 (as claimed): after a task is executed its next_due is its previous
\* next_due plus its period, however long the poll took.
C29_AdvanceByPeriod ==
  [][AdvanceStep => TaskNext.next_due = TaskNow.next_due + TaskNow.period]_vars

\* C29 amended: after a task is executed its next_due is the time at which the
\* poll and its snapshot update completed plus its period, which is never
\* earlier than its previous next_due plus its period; no other task changes.
C29_AdvanceFromCompletion ==
  [][AdvanceStep =>
       /\ TaskNext.next_due = now * 1000 + TaskNow.period
       /\ TaskNext.next_due >= TaskNow.next_due + TaskNow.period
       /\ TaskNext.period = TaskNow.period
       /\ \A j \in 1..Len(poller.tasks) : j # poller.i => poller'.tasks[j] = poller.tasks[j]
       /\ Len(poller'.tasks) = Len(poller.tasks)]_vars

\* C29 witness: a poll during which the clock advanced has been completed and the
\* task is due one period after the completion.
C29_Witness ==
  /\ poller.pc = "loop"
  /\ poller.last.key # "none"
  /\ poller.last.ended * 1000 > poller.last.tick
  /\ \E j \in 1..Len(poller.tasks) :
       /\ poller.tasks[j].snapshot_key = poller.last.key
       /\ poller.tasks[j].next_due = poller.last.ended * 1000 + poller.last.period
       /\ poller.tasks[j].next_due > poller.last.due + poller.last.period

\* the fixed order of the tasks
ClaimOrder ==
  <<"battery", "solar", "hoist_hook", "io_relay", "multi_turn_encoder",
    "spd_lidar:front", "spd_lidar:rear">>
Position(key) == CHOOSE k \in 1..Len(ClaimOrder) : ClaimOrder[k] = key

\* the worker is executing the task it selected in its scan
PollStages ==
  {"capture", "query", "restore", "snap_lock", "snap_output", "snap_status",
   "snap_time", "advance"}

\* the tasks a start has to create: one per driver with a rate above 0, one per
\* enabled lidar instance when the lidar rate is above 0
ExpectedKeys(cfg) ==
  {d \in DOMAIN cfg.hz : cfg.hz[d] > 0}
    \cup {LidarKey(id) : id \in {x \in DOMAIN cfg.enable : cfg.enable[x] /\ cfg.lidar_hz > 0}}

C30_Selected ==
  (poller.thread = "running" /\ poller.pc \in PollStages) =>
    /\ poller.i \in 1..Len(poller.tasks)
    /\ poller.tasks[poller.i].next_due <= poller.tick
    /\ \A j \in 1..(poller.i - 1) : poller.tasks[j].next_due > poller.tick
C30_Sleeps ==
  (poller.thread = "running" /\ poller.pc = "sleep") =>
    /\ \A j \in 1..Len(poller.tasks) : poller.tasks[j].next_due > poller.tick
    /\ poller.wake * 1000 = poller.tick + 20 * 1000
C30_Ordered ==
  \A a, b \in 1..Len(poller.tasks) :
    a < b => Position(poller.tasks[a].snapshot_key) < Position(poller.tasks[b].snapshot_key)
C30_ScanStep ==
  (poller.pc = "loop" /\ poller'.pc \in {"capture", "sleep"})
    => poller'.tick = now * 1000 /\ poller'.tasks = poller.tasks
C30_OneTaskPerScan ==
  (poller'.tasks # poller.tasks /\ poller'.starts = poller.starts)
    => /\ AdvanceStep
       /\ \A j \in 1..Len(poller.tasks) : j # poller.i => poller'.tasks[j] = poller.tasks[j]
C30_FreshAtStart ==
  (poller'.starts # poller.starts)
    => /\ \A j \in 1..Len(poller'.tasks) : poller'.tasks[j].next_due = now * 1000
       /\ {poller'.tasks[j].snapshot_key : j \in 1..Len(poller'.tasks)}
            = ExpectedKeys(poller.cfg)
       /\ Len(poller'.tasks) = Cardinality(ExpectedKeys(poller.cfg))

\* C30: each scan runs exactly one task, the first in the fixed order battery,
\* solar, hoist_hook, io_relay, multi_turn_encoder, lidar instances whose next_due
\* is not after the scan's start time, and then scans again from the top; it
\* sleeps 20 ms only when no task is due; every start builds the tasks anew with
\* next_due equal to the start time.
C30_Selection ==
  /\ [](C30_Selected /\ C30_Sleeps /\ C30_Ordered)
  /\ [][C30_ScanStep /\ C30_OneTaskPerScan /\ C30_FreshAtStart]_vars

\* C30 witness: after a restart the scan passes over the first task, which is
\* not due, and runs the second.
C30_Witness ==
  /\ poller.starts = 2
  /\ poller.pc = "capture"
  /\ poller.i = 2
  /\ poller.tasks[1].next_due > poller.tick
  /\ poller.tasks[2].next_due <= poller.tick


-----------------------------------------------------------------------------
(***************************************************************************)
(* Aggregated info commands                                                *)
(***************************************************************************)

\* C31: an aggregated info command (battery all, hoist_hook all, solar basic and
\* all) that has returned has entered every one of its sections in order and
\* attempted at least the first read of each section that has reads, whatever
\* failed in the sections before it.
C31_SectionsAllAttempted ==
  (Call.pc = "done" /\ Call.kind = "info") =>
    LET sections == Sections(Call.drv, Call.args[1])
    IN /\ Len(Call.log) = Len(sections)
       /\ \A k \in 1..Len(sections) :
            /\ Call.log[k].name = sections[k].name
            /\ sections[k].reads # <<>> => Call.log[k].attempted >= 1
       /\ Call.ret.ok

\* C31 witness: battery all returned after its first section was cut short by a
\* failure and its last section was still read.
C31_Witness ==
  /\ Call.pc = "done" /\ Call.kind = "info"
  /\ Call.drv = "battery" /\ Call.args = <<"all">>
  /\ Call.log[1].ended
  /\ Call.log[1].attempted = 1
  /\ Call.log[5].attempted = 1
  /\ ~Call.log[5].ended


-----------------------------------------------------------------------------
(***************************************************************************)
(* Transaction ids                                                         *)
(***************************************************************************)

ReadOnlyFamilies == {"battery", "solar"}
EveryFrameFamilies == {"hoist_hook", "io_relay"}

\* C32 as stated: at most one core ever moves its transaction id for a write
\* frame (0x05/0x06); every other core reuses the current value for writes.
C32_OneFamilyEveryFrame ==
  \E u \in Drivers :
    \A p \in frame_log.bumped : p[1] # u => p[2] \notin {5, 6}

\* C32, amended: battery and solar step the id (by 1 modulo 65536) only for a
\* 0x03/0x04 read frame and keep it for a write frame; hoist_hook and io_relay
\* step it for every frame they build; every attempt of an exchange sends the
\* frame as built, with the id it was built with.
C32_TransactionIdPolicy ==
  /\ \A p \in frame_log.bumped : p[1] \in ReadOnlyFamilies => p[2] \in {3, 4}
  /\ \A p \in frame_log.kept : p[1] \in ReadOnlyFamilies /\ p[2] \notin {3, 4}
  /\ frame_log.last # <<>> =>
       \/ frame_log.last[2] = frame_log.last[1]
       \/ frame_log.last[2] = frame_log.last[1] + 1
       \/ frame_log.last[1] = 65535 /\ frame_log.last[2] = 0
  /\ \A i \in 1..Len(packet.sends) :
       /\ PacketTid(packet.sends[i].pkt) = PacketTid(packet.pkt)
       /\ packet.pkt # <<>> => PacketTid(packet.pkt) = transaction_id_[packet.drv]

\* both every-frame cores have stepped the id for a write, a read-only core has
\* kept it for a write, and the last frame, built across the wrap, went out twice
C32_Witness ==
  /\ <<"hoist_hook", 6>> \in frame_log.bumped
  /\ <<"io_relay", 5>> \in frame_log.bumped
  /\ <<"battery", 6>> \in frame_log.kept
  /\ frame_log.last = <<65535, 0>>
  /\ Len(packet.sends) = 2

-----------------------------------------------------------------------------
(***************************************************************************)
(* Cooperative shutdown                                                    *)
(***************************************************************************)

StopPending == poller.api # "idle"
StopReturned ==
  /\ poller.api = "idle"
  /\ ~poller.auto_query_running_ /\ ~reporter.snapshot_printer_running_
  /\ poller.thread = "none" /\ reporter.thread = "none"

\* a worker that has returned left no poll half done: it holds neither lock and
\* the snapshot has the status and the time of the last poll it began
PollCompleted ==
  /\ output_mutex_ # "scheduler" /\ snapshot_mutex_ # "scheduler"
  /\ console.rdbuf = "capture" => output_mutex_ # "none"
  /\ poller.last.key # "none" =>
       /\ snapshot.latest_query_output_[poller.last.key].poll = poller.polls
       /\ snapshot.latest_query_status_[poller.last.key] = poller.polls
       /\ snapshot.latest_query_time_[poller.last.key] = poller.polls

\* C33: once stop() is invoked, the scheduler and the reporter each exit at their
\* next loop boundary, a poll in progress runs to completion with its snapshot
\* update, and stop() eventually returns with both threads joined.
C33_CooperativeShutdown ==
  /\ [](poller.thread \in {"exited", "none"} => PollCompleted)
  /\ [][/\ (poller.thread = "running" /\ poller'.thread = "exited" => poller.pc = "loop")
        /\ (reporter.thread = "running" /\ reporter'.thread = "exited"
              => reporter.pc = "loop")]_vars
  /\ StopPending ~> StopReturned

\* stop() has returned after the worker polled and the reporter printed
C33_Witness ==
  /\ StopReturned
  /\ poller.starts > 0 /\ poller.polls > 0
  /\ \E k \in SnapshotKeys : reporter.outputs[k].poll > 0

-----------------------------------------------------------------------------
(***************************************************************************)
(* Starvation                                                              *)
(***************************************************************************)

LoopTasks == DOMAIN worker_loop.tasks
TaskDue(k) == worker_loop.tasks[k].next_due = 0
TaskRuns(k) == worker_loop.pc = "poll" /\ worker_loop.i = k

RECURSIVE SumBefore(_, _)
SumBefore(dur, k) == IF k <= 1 THEN 0 ELSE dur[k - 1] + SumBefore(dur, k - 1)

\* the polls of the tasks scanned before k last, together, less than the shortest
\* of those tasks' periods
EarlierPollsShort(k) ==
  \A j \in 1..(k - 1) :
    SumBefore(worker_loop.dur, k) < worker_loop.tasks[j].period

-----------------------------------------------------------------------------
(***************************************************************************)
(* Deadlock freedom                                                        *)
(***************************************************************************)

\* the thread t is blocked on a mutex that u owns
WaitsFor(t, u) ==
  /\ mutexes.todo[t] # <<>>
  /\ Head(mutexes.todo[t]).op = "lock"
  /\ mutexes.owner[Head(mutexes.todo[t]).mutex] = u

WaitCycle ==
  \/ \E t, u \in LockThreads : t # u /\ WaitsFor(t, u) /\ WaitsFor(u, t)
  \/ \E t, u, v \in LockThreads :
       /\ t # u /\ u # v /\ v # t
       /\ WaitsFor(t, u) /\ WaitsFor(u, v) /\ WaitsFor(v, t)
  \/ \E t \in LockThreads : WaitsFor(t, t)

\* output lock 1, RateLimiter global lock 2, a socket lock 3
LockRank(m) ==
  IF m = OutputLock THEN 1 ELSE IF m = GuardLock THEN 2 ELSE 3

\* C35: no reachable state has threads waiting on each other in a cycle; a thread
\* holds its locks in the order output lock, RateLimiter global lock, socket lock,
\* and holds the snapshot lock only alone, so never while acquiring another lock.
C35_DeadlockFree ==
  /\ ~WaitCycle
  /\ \A t \in LockThreads :
       LET h == mutexes.held[t]
       IN /\ \A a, b \in 1..Len(h) :
               (a < b /\ h[a] # SnapshotLock /\ h[b] # SnapshotLock)
                 => LockRank(h[a]) < LockRank(h[b])
          /\ (\E a \in 1..Len(h) : h[a] = SnapshotLock) => Len(h) = 1
          /\ \A a \in 1..Len(h) : mutexes.owner[h[a]] = t

\* the worker holds all three of output, global and socket lock while the caller
\* waits for the global lock and the printer, holding the snapshot lock, is running
C35_Witness ==
  /\ mutexes.held["scheduler"] = <<OutputLock, GuardLock, SocketLock("battery")>>
  /\ mutexes.held["caller"] = <<>>
  /\ WaitsFor("caller", "scheduler")
  /\ Head(mutexes.todo["caller"]).mutex = GuardLock
  /\ mutexes.held["reporter"] = <<SnapshotLock>>

-----------------------------------------------------------------------------
(***************************************************************************)
(* Decoders stay inside the response                                       *)
(***************************************************************************)

\* C36: for every response readRelayStatus accepts (length >= 10, byte 7 = 0x01,
\* length >= 9 + byte 8), every byte index it reads, 9 for one channel, 9 and 10
\* for the read-all, is smaller than the length of the response.
C36_RelayReadsInBounds ==
  (decoded # NoDecode /\ decoded.driver = "io_relay" /\ decoded.result.accepted)
    => \A k \in decoded.result.reads : k < Len(response)

\* C37: every byte index parseRegisterResponse of battery, solar and hoist_hook
\* reads (7, 8 and 9 + 2i, 10 + 2i for i < quantity) is smaller than the length of
\* the response, for every response and every quantity.
C37_RegisterReadsInBounds ==
  (decoded # NoDecode /\ decoded.driver \in DecodeFamilies)
    => /\ \A k \in decoded.reads : k < Len(response)
       /\ parseRegisterResponse(decoded.driver, response, function_code, quantity).ok
            => decoded.reads = {7, 8} \cup (9..(8 + 2 * quantity))

\* hoist_hook decoded 125 registers from a padded response: bytes up to 258 of 260
C37_Witness ==
  /\ decoded # NoDecode /\ decoded.driver = "hoist_hook"
  /\ quantity = MaxQuantity
  /\ Len(response) = 260
  /\ 258 \in decoded.reads

-----------------------------------------------------------------------------
(***************************************************************************)
(* The lidar receive buffer stays bounded                                  *)
(***************************************************************************)

\* the bytes the last handleRecvBytes call worked on: the residue of the earlier
\* calls followed by the bytes it was given
Buffered == lastPush.before \o lastPush.data

\* C38 as stated: after every handleRecvBytes call the receive buffer holds fewer
\* than 8 bytes, and at most 2 whenever the bytes the call worked on hold no marker.
C38_ResidualAtMostTwo ==
  lastPush.called
    => /\ Len(recv_buf_) < kFrameSize
       /\ NoMarkerIn(Buffered) => Len(recv_buf_) <= 2

\* C38 amended: after every handleRecvBytes call the receive buffer holds fewer
\* than 8 bytes; it holds at most 2 (exactly the last 2 bytes) when the bytes the
\* call worked on are at least 8 and hold no marker, and fewer than 8 marker-free
\* bytes are all kept.
C38_ResidualBounded ==
  lastPush.called
    => /\ Len(recv_buf_) < kFrameSize
       /\ (NoMarkerIn(Buffered) /\ Len(Buffered) >= kFrameSize)
            => recv_buf_ = SubSeq(Buffered, Len(Buffered) - 1, Len(Buffered))
       /\ (NoMarkerIn(Buffered) /\ Len(Buffered) < kFrameSize)
            => recv_buf_ = Buffered

\* a second delivery completes 8 marker-free bytes and leaves 2 of them
C38_Witness ==
  /\ lastPush.called
  /\ lastPush.before # <<>>
  /\ Len(Buffered) >= kFrameSize /\ NoMarkerIn(Buffered)
  /\ Len(recv_buf_) = 2
  /\ Len(frames) = 0

-----------------------------------------------------------------------------
(***************************************************************************)
(* Status.ok and the outcome of the exchanges                              *)
(***************************************************************************)

\* the numeric arguments queryX parses for this sub-command are there and parse
WellFormedArgs(args) ==
  LET cmd == args[1]
      Parses(lo, hi) == \A k \in lo..hi : k <= Len(args) => parseInt(args[k]).ok
  IN CASE cmd = CmdGet -> Len(args) >= 2 /\ Parses(2, 4)
       [] cmd = CmdSet -> Len(args) >= 3 /\ Parses(2, 4)
       [] cmd \in {CmdOn, CmdOff} -> Len(args) >= 2 /\ Parses(2, 2)
       [] cmd = CmdRead -> Parses(2, 2)
       [] OTHER -> TRUE

\* the exchanges of a returned call that failed: nothing connected, nothing came
\* back, or the answer was refused
ExchangeFailures == {"io_error", "protocol_error", "abnormal"}

\* C39: a returned query of battery, solar, hoist_hook or io_relay with a
\* recognized sub-command and well-formed arguments has Status{true, "ok"},
\* also when its exchange failed (io_error, protocol_error, abnormal); and every
\* status the worker stored in the snapshot is Status{true, "ok"}, also when the
\* captured output says the last exchange of the poll failed.
C39_OkIsDispatchValidity ==
  /\ (/\ Call.pc = "done"
      /\ Registered(Call.sensor)
      /\ Call.args # <<>>
      /\ Call.args[1] \in SubCommands(Call.sensor)
      /\ WellFormedArgs(Call.args))
       => Call.ret = StatusOk
  /\ (Call.pc = "done" /\ Call.outcome \in ExchangeFailures) => Call.ret.ok
  /\ \A d \in Drivers :
       snapshot.latest_query_output_[d] # NoCapture
         => snapshot.latest_query_status_[d] = StatusOk

\* a direct get whose exchange never connected returned ok, and the poll of a
\* battery that could not be connected to is in the snapshot with ok = true
C39_Witness ==
  /\ Call.pc = "done" /\ Call.kind = "get" /\ Call.outcome = "io_error"
  /\ Call.xfers = 0 /\ Call.ret.ok
  /\ snapshot.latest_query_output_["battery"].printed
  /\ ~snapshot.latest_query_output_["battery"].ok
  /\ snapshot.latest_query_output_["battery"].transfers = 0
  /\ snapshot.latest_query_status_["battery"].ok

-----------------------------------------------------------------------------
(***************************************************************************)
(* Worker lifecycle                                                        *)
(***************************************************************************)

\* a thread that was launched and whose function has not returned
Alive(state) == state \notin {"none", "exited"}

\* a call has just returned having launched the worker w
Launches(w) == orch'.last # orch.last /\ w \in orch'.last.did.launched

\* C40: whatever init(), start() and stop() calls were made, a scheduler worker
\* (a reporter worker) is launched only when no scheduler worker (no reporter
\* worker) exists, so that there is never more than one of each; and between
\* calls a worker is alive only on a started orchestrator.
C40_WorkerLifecycle ==
  /\ []((orch.api = "idle" /\ (Alive(orch.sched) \/ Alive(orch.printer)))
          => (orch.started_ /\ orch.initialized_))
  /\ [][Launches("scheduler") => (orch.sched = "none" /\ Alive(orch'.sched))]_vars
  /\ [][Launches("reporter") => (orch.printer = "none" /\ Alive(orch'.printer))]_vars
  /\ [][(orch.api = "idle" /\ orch'.api = "idle" /\ ~Launches("scheduler"))
          => (Alive(orch'.sched) => Alive(orch.sched))]_vars

\* the last call, a start(), launched both workers; both are alive between calls
\* and the scheduler worker has polled
C40_Witness ==
  /\ orch.api = "idle" /\ orch.started_
  /\ orch.last.op = "start" /\ orch.last.did.launched = {"scheduler", "reporter"}
  /\ orch.updates > 0
  /\ orch.sched = "check" /\ orch.printer = "check"

==========================================================================
